---- MODULE Spec2Model ----
(***************************************************************************)
(* The ingestion - cache - alert pipeline of the telemetry ingestor:       *)
(* TelemetryService.ingestTelemetry, RedisService and AlertService.        *)
(*                                                                         *)
(* Execution model.  The program runs on one JavaScript event loop: code   *)
(* runs without interruption from the completion of one I/O call up to the *)
(* point where every continuation waits on another I/O call.  An action of *)
(* this module is therefore one I/O completion (or one event, or one       *)
(* request) together with all the synchronous code and microtasks it       *)
(* triggers.  The I/O calls are: insertMany (MongoDB), setex / exists      *)
(* (Redis) and the webhook POST.                                           *)
(***************************************************************************)
EXTENDS Integers, Sequences, FiniteSets, TLC

(* ------------------------------ bounds --------------------------------- *)
\* readings submitted over a whole run
MaxReadings == 2
\* readings in one ingest call
MaxBatch == 2
\* seconds the clock advances in one Tick
TickStep == 60
\* last instant of the clock
MaxTime == 60
\* faults of the environment over a whole run: failed Redis commands, failed
\* webhook calls and losses of the Redis connection
MaxFaults == 1
\* getLatest calls over a whole run
MaxLookups == 2
\* readings submitted plus getLatest calls over a whole run that has both
MaxCalls == 3
\* readings submitted over a whole run that summarises a site
MaxStored == 3
\* getSiteSummary calls over a whole run
MaxSummaries == 1
\* the instants a reading or an interval bound can name, in seconds
MaxInstant == 3
\* words in an Authorization header, characters in a configured token
MaxWords == 5
MaxTokenLen == 2
\* HTTP requests over a whole run
MaxHttp == 1

(* ----------------------- constants of the program ---------------------- *)
TEMPERATURE_THRESHOLD == 50
HUMIDITY_THRESHOLD == 90
\* alert.dedupWindow, default 60 (seconds)
dedupWindow == 60
\* default ttl of cacheLatest (seconds)
LatestTtl == 86400

HIGH_TEMPERATURE == "HIGH_TEMPERATURE"
HIGH_HUMIDITY == "HIGH_HUMIDITY"
AlertReason == {HIGH_TEMPERATURE, HIGH_HUMIDITY}

(* ------------------------------ inputs --------------------------------- *)
Devices == {"d1", "d2"}

\* Values.  An ISO-8601 string naming second n, a Date (milliseconds since the
\* epoch), an ObjectId and its hexadecimal string are different values.
IsoString(n) == <<"iso", n>>
\* Date.prototype.toISOString / toJSON
ToISOString(date) == <<"iso", date[2] \div 1000>>
\* ObjectId.prototype.toString / toJSON
ObjectIdToString(oid) == <<"hex", oid[2]>>

\* a validated reading (TelemetryDto); the metrics are in integer units, ts is
\* the string the client sent
ReadingAt(deviceId, siteId, ts, temperature, humidity) ==
    [deviceId |-> deviceId, siteId |-> siteId, ts |-> IsoString(ts),
     temperature |-> temperature, humidity |-> humidity]
Reading(deviceId, temperature, humidity) == ReadingAt(deviceId, "s1", 1, temperature, humidity)

\* the readings a client sends: values at and just above each threshold
TelemetryDto ==
    {Reading("d1", 50, 90), Reading("d1", 51, 91), Reading("d2", 51, 90)}

\* the readings sent in the runs that read the latest reading back: two
\* instants of one device, the later one above the temperature threshold
LatestDto ==
    {ReadingAt("d1", "s1", 1, 50, 90), ReadingAt("d1", "s1", 2, 51, 90),
     ReadingAt("d2", "s1", 1, 50, 90)}

\* the readings sent in the runs that summarise a site: two devices of site
\* s1, one of them with two readings, and a reading of another site
SummaryDto ==
    {ReadingAt("d1", "s1", 1, 25, 60), ReadingAt("d2", "s1", 2, 30, 70),
     ReadingAt("d1", "s1", 3, 26, 61), ReadingAt("d1", "s2", 1, 40, 80)}
Sites == {"s1", "s2"}

\* the readings of the bodies sent to POST /telemetry: a valid one, a valid
\* one above the temperature threshold, and one for each rule of the DTO broken
BodyDto ==
    {ReadingAt("d1", "s1", 1, 25, 60), ReadingAt("d1", "s1", 1, 51, 60),
     ReadingAt("", "s1", 1, 25, 60), ReadingAt("d1", "", 1, 25, 60),
     [ReadingAt("d1", "s1", 1, 25, 60) EXCEPT !.ts = <<"text", "invalid-timestamp">>],
     ReadingAt("d1", "s1", 1, 200, 60), ReadingAt("d1", "s1", 1, -101, 60),
     ReadingAt("d1", "s1", 1, 25, 150), ReadingAt("d1", "s1", 1, 25, -1)}

\* the non-empty sequences over S of length at most n
SeqUpTo(S, n) == UNION {[1..k -> S] : k \in 1..n}

\* outcomes of the webhook POST
DeliveryFailures == {"network_error", "bad_status", "timeout"}
Outcomes == {"success"} \cup DeliveryFailures

\* Strings whose characters matter are sequences of characters; undefined is
\* a value of its own.
Undefined == <<"undefined">>
Bearer == <<"B", "e", "a", "r", "e", "r">>
Basic == <<"B", "a", "s", "i", "c">>
\* the concatenations of at most n strings of the set words
RECURSIVE Concats(_, _)
Concats(words, n) ==
    IF n = 0 THEN {<<>>}
    ELSE Concats(words, n - 1) \cup {w \o c : w \in words, c \in Concats(words, n - 1)}
\* the values of INGEST_TOKEN: unset, empty, or some characters
Tokens == {Undefined} \cup Concats({<<"a">>, <<"b">>, <<" ">>}, MaxTokenLen)
\* the Authorization headers of a request: none, or some words
Headers ==
    {Undefined} \cup Concats({Bearer, Basic, <<" ">>, <<"a">>, <<"b">>}, MaxWords)

VARIABLES
    isConnected,  \* RedisService.isConnected
    now,          \* the clock, in seconds
    store,        \* the telemetry collection: sequence of stored documents
    latest,       \* Redis: latest:<deviceId> -> entry or NoEntry
    marker,       \* Redis: alert:<deviceId>:<reason> -> [expiry, by]
    requests,     \* the ingestTelemetry calls made so far
    cacheTasks,   \* the cacheLatestReading promises started by ingestTelemetry
    alertTasks,   \* the checkAndAlert promises started by ingestTelemetry
    lookups,      \* the TelemetryService.getLatest calls made so far
    summaries,    \* the TelemetryService.getSiteSummary calls made so far
    ingestToken,  \* AuthGuard.ingestToken
    readyState,   \* mongoConnection.readyState
    http,         \* the HTTP requests received so far
    faults        \* the faults of the environment so far

vars == <<isConnected, now, store, latest, marker, requests, cacheTasks, alertTasks,
          lookups, summaries, ingestToken, readyState, http, faults>>

NoEntry == [ttl |-> 0]
NoMarker == [expiry |-> 0, by |-> 0]

(* --------------------------- RedisService ------------------------------ *)
\* (variant: the key leaves the reason out)
AlertKeyPerDevice(deviceId, reason) == <<deviceId, HIGH_TEMPERATURE>>

\* key alert:<deviceId>:<reason>
AlertKey(deviceId, reason) == <<deviceId, reason>>
AlertKeys == {AlertKey(d, r) : d \in Devices, r \in AlertReason}

\* EXISTS key: 1 when the key is set and has not expired, else 0
RedisExists(m, key, time) == IF m[key].expiry > time THEN 1 ELSE 0

\* SETEX key seconds value, issued by the alert task `by`
RedisSetexMarker(m, key, seconds, time, by) ==
    [m EXCEPT ![key] = [expiry |-> time + seconds, by |-> by]]

\* (variant: an unavailable cache counts as "recently sent")
wasAlertRecentlySentFailClosed(conn, ok, exists) ==
    IF ~conn THEN TRUE
    ELSE IF ok THEN exists = 1
    ELSE TRUE

\* (variant: the reply of the lookup is not used)
wasAlertRecentlySentIgnored(conn, ok, exists) == FALSE

\* wasAlertRecentlySent: conn is isConnected at the call, ok says whether the
\* exists command succeeded, exists is its reply
wasAlertRecentlySent(conn, ok, exists) ==
    IF ~conn THEN FALSE
    ELSE IF ok THEN exists = 1
    ELSE FALSE

\* (variant: the window is converted from milliseconds although it is in seconds)
markAlertSentDivided(m, conn, ok, deviceId, reason, windowSeconds, time, by) ==
    IF ~conn THEN m
    ELSE IF ok
         THEN RedisSetexMarker(m, AlertKey(deviceId, reason), windowSeconds \div 1000, time, by)
         ELSE m

\* the state of Redis after markAlertSent
markAlertSent(m, conn, ok, deviceId, reason, windowSeconds, time, by) ==
    IF ~conn THEN m
    ELSE IF ok THEN RedisSetexMarker(m, AlertKey(deviceId, reason), windowSeconds, time, by)
    ELSE m

\* (variant: the entry is built from a document that has no _id yet)
CacheDataUnsaved(r, doc) ==
    [deviceId |-> r.deviceId, siteId |-> r.siteId, ts |-> r.ts,
     temperature |-> r.temperature, humidity |-> r.humidity,
     id |-> Undefined]

\* the value cacheLatestReading stores for reading r saved as document doc
CacheData(r, doc) ==
    [deviceId |-> r.deviceId, siteId |-> r.siteId, ts |-> r.ts,
     temperature |-> r.temperature, humidity |-> r.humidity,
     id |-> ObjectIdToString(doc.id)]

\* JSON.stringify of a reading: a text; Date and ObjectId fields are written
\* through their toJSON
JsonStringify(data) ==
    <<"json", [data EXCEPT !.ts = IF @[1] = "date" THEN ToISOString(@) ELSE @,
                           !.id = IF @[1] = "oid" THEN ObjectIdToString(@) ELSE @]>>

\* a text under a latest key that is not JSON, and the reply for a missing key
Garbled == <<"text", "{">>
Nil == <<"nil">>

\* JSON.parse: the value of a JSON text; it throws on any other text
JsonParse(text) ==
    IF text[1] = "json" THEN [ok |-> TRUE, value |-> text[2]] ELSE [ok |-> FALSE]

\* the state of Redis after cacheLatest; an entry keeps the ttl it was given
\* (the clock of this model stays far below it)
cacheLatest(l, conn, ok, deviceId, data, ttl) ==
    IF ~conn THEN l
    ELSE IF ok THEN [l EXCEPT ![deviceId] = [ttl |-> ttl, value |-> JsonStringify(data)]]
    ELSE l

\* (variant: a failure of the read is handed to the caller)
getLatestRethrows(conn, ok, text) ==
    IF ~conn THEN [found |-> FALSE, raised |-> FALSE]
    ELSE IF ~ok \/ (text # Nil /\ ~JsonParse(text).ok)
         THEN [found |-> FALSE, raised |-> TRUE]
    ELSE IF text = Nil THEN [found |-> FALSE, raised |-> FALSE]
    ELSE [found |-> TRUE, raised |-> FALSE, value |-> JsonParse(text).value]

\* (variant: the read needs a connected client)
getLatestNeedsConnection(conn, ok, text) ==
    IF ~conn THEN [found |-> FALSE, raised |-> TRUE]
    ELSE IF ~ok \/ text = Nil \/ ~JsonParse(text).ok THEN [found |-> FALSE, raised |-> FALSE]
    ELSE [found |-> TRUE, raised |-> FALSE, value |-> JsonParse(text).value]

\* RedisService.getLatest: what it hands to its caller when the client is
\* connected or not (conn), the get succeeds or not (ok) and replies text
getLatest(conn, ok, text) ==
    IF ~conn THEN [found |-> FALSE, raised |-> FALSE]
    ELSE IF ~ok THEN [found |-> FALSE, raised |-> FALSE]
    ELSE IF text = Nil THEN [found |-> FALSE, raised |-> FALSE]
    ELSE IF ~JsonParse(text).ok THEN [found |-> FALSE, raised |-> FALSE]
    ELSE [found |-> TRUE, raised |-> FALSE, value |-> JsonParse(text).value]

(* --------------------------- AlertService ------------------------------ *)
\* (variant: the reply of the dedup lookup is ignored)
shouldSendAlertAlways(wasRecentlySent) == TRUE

\* shouldSendAlert
shouldSendAlert(wasRecentlySent) == ~wasRecentlySent

\* (variant: the temperature threshold is inclusive)
ExceedsTemperatureInclusive(temperature) == temperature >= TEMPERATURE_THRESHOLD

\* the thresholds of checkAndAlert
ExceedsTemperature(temperature) == temperature > TEMPERATURE_THRESHOLD
\* (variant: the humidity threshold itself raises an alert)
ExceedsHumidityInclusive(humidity) == humidity >= HUMIDITY_THRESHOLD
ExceedsHumidity(humidity) == humidity > HUMIDITY_THRESHOLD

\* (variant: every alert carries the temperature)
AlertOfTemperature(r, reason) ==
    [deviceId |-> r.deviceId, siteId |-> r.siteId, ts |-> r.ts, reason |-> reason,
     value |-> r.temperature]

\* AlertDto built by checkAndAlert for reading r
AlertOf(r, reason) ==
    [deviceId |-> r.deviceId, siteId |-> r.siteId, ts |-> r.ts, reason |-> reason,
     value |-> IF reason = HIGH_TEMPERATURE THEN r.temperature ELSE r.humidity]

\* (variant: a failed POST is thrown on)
sendAlertRethrows(outcome) ==
    IF outcome \in DeliveryFailures THEN "thrown" ELSE "sent"

\* sendAlert: what becomes of the POST's outcome; "thrown" would reject the
\* promise of sendAlert
sendAlert(outcome) ==
    IF outcome \in DeliveryFailures THEN "caught" ELSE "sent"

\* (variant: a failed delivery removes the marker so that the alert is retried)
MarkerAfterSendRetry(m, alert, outcome) ==
    IF outcome \in DeliveryFailures
    THEN [m EXCEPT ![AlertKey(alert.deviceId, alert.reason)] = [expiry |-> 0, by |-> 0]]
    ELSE m

\* the markers after sendAlert has handled the outcome of its POST: neither
\* the success path nor the catch block touches Redis
MarkerAfterSend(m, alert, outcome) == m

\* A checkAndAlert call.  look[reason]: the dedup lookup made for the reason
\* ("skip": threshold not exceeded, "down": not connected, "failed": command
\* failed, "present": exists replied 1, "absent" / "expired": exists replied 0
\* and the key was never set / was set and has expired); saw[reason]: the task
\* that set the marker the lookup found; mark[reason]: the marker write, made
\* at markAt[reason]; posts: the webhook calls issued so far.
NewAlertTask(req, r) ==
    [req |-> req, r |-> r, pc |-> "start", alerts |-> <<>>,
     look |-> [x \in AlertReason |-> "none"],
     saw |-> [x \in AlertReason |-> 0],
     mark |-> [x \in AlertReason |-> "none"],
     markAt |-> [x \in AlertReason |-> -1],
     posts |-> <<>>]

\* for (const alert of alerts) await this.sendAlert(alert): issue the next POST
SendAlerts(t, time) ==
    IF Len(t.posts) < Len(t.alerts)
    THEN [t EXCEPT !.pc = "post",
                   !.posts = Append(@, [alert |-> t.alerts[Len(t.posts) + 1],
                                        at |-> time, result |-> "pending"])]
    ELSE [t EXCEPT !.pc = "done"]

\* (variant: a failed delivery ends the loop)
AfterPostStops(t, outcome, time) ==
    LET res == sendAlert(outcome)
        t2 == [t EXCEPT !.posts[Len(t.posts)].result = res]
    IN IF res = "sent" THEN SendAlerts(t2, time) ELSE [t2 EXCEPT !.pc = "done"]

\* (variant: a failed delivery is tried once more)
AfterPostRetries(t, outcome, time) ==
    LET res == sendAlert(outcome)
        t2 == [t EXCEPT !.posts[Len(t.posts)].result = res]
    IN IF res = "caught"
       THEN [t2 EXCEPT !.pc = "post",
                       !.posts = Append(@, [alert |-> t.posts[Len(t.posts)].alert,
                                            at |-> time, result |-> "pending"])]
       ELSE IF Len(t2.posts) >= Len(t2.alerts) THEN [t2 EXCEPT !.pc = "done"]
       ELSE SendAlerts(t2, time)

\* (variant: the POST has no timeout: a webhook that never answers leaves
\* sendAlert waiting)
AfterPostNoTimeout(t, outcome, time) ==
    LET res == sendAlert(outcome)
        t2 == [t EXCEPT !.posts[Len(t.posts)].result = res]
    IN IF outcome = "timeout" THEN [t EXCEPT !.pc = "waiting"]
       ELSE IF res = "thrown" THEN [t2 EXCEPT !.pc = "rejected"]
       ELSE SendAlerts(t2, time)

\* the POST of the task has ended with `outcome`
AfterPost(t, outcome, time) ==
    LET res == sendAlert(outcome)
        t2 == [t EXCEPT !.posts[Len(t.posts)].result = res]
    IN IF res = "thrown" THEN [t2 EXCEPT !.pc = "rejected"] ELSE SendAlerts(t2, time)

\* (variant: the humidity alert is delivered without its marker being written)
DecideHumidityUnmarked(t, shouldSend, conn, time) ==
    IF shouldSend
    THEN SendAlerts([t EXCEPT !.alerts = Append(@, AlertOf(t.r, HIGH_HUMIDITY))], time)
    ELSE SendAlerts(t, time)

\* humidity block, from the reply of shouldSendAlert on
DecideHumidity(t, shouldSend, conn, time) ==
    IF shouldSend
    THEN LET t2 == [t EXCEPT !.alerts = Append(@, AlertOf(t.r, HIGH_HUMIDITY))]
         IN IF conn THEN [t2 EXCEPT !.pc = "markH"]
            ELSE SendAlerts([t2 EXCEPT !.mark[HIGH_HUMIDITY] = "down"], time)
    ELSE SendAlerts(t, time)

\* if (humidity > HUMIDITY_THRESHOLD) ...
CheckHumidity(t, conn, time) ==
    IF ExceedsHumidity(t.r.humidity)
    THEN IF conn THEN [t EXCEPT !.pc = "existsH"]
         ELSE DecideHumidity([t EXCEPT !.look[HIGH_HUMIDITY] = "down"],
                             shouldSendAlert(wasAlertRecentlySent(conn, FALSE, 0)), conn, time)
    ELSE SendAlerts([t EXCEPT !.look[HIGH_HUMIDITY] = "skip"], time)

\* temperature block, from the reply of shouldSendAlert on
DecideTemperature(t, shouldSend, conn, time) ==
    IF shouldSend
    THEN LET t2 == [t EXCEPT !.alerts = Append(@, AlertOf(t.r, HIGH_TEMPERATURE))]
         IN IF conn THEN [t2 EXCEPT !.pc = "markT"]
            ELSE CheckHumidity([t2 EXCEPT !.mark[HIGH_TEMPERATURE] = "down"], conn, time)
    ELSE CheckHumidity(t, conn, time)

\* if (temperature > TEMPERATURE_THRESHOLD) ...
CheckTemperature(t, conn, time) ==
    IF ExceedsTemperature(t.r.temperature)
    THEN IF conn THEN [t EXCEPT !.pc = "existsT"]
         ELSE DecideTemperature([t EXCEPT !.look[HIGH_TEMPERATURE] = "down"],
                                shouldSendAlert(wasAlertRecentlySent(conn, FALSE, 0)), conn, time)
    ELSE CheckHumidity([t EXCEPT !.look[HIGH_TEMPERATURE] = "skip"], conn, time)

\* checkAndAlert(deviceId, siteId, ts, temperature, humidity), up to its first I/O
checkAndAlert(req, r, conn, time) == CheckTemperature(NewAlertTask(req, r), conn, time)

\* the reason an exists or setex of the task is about
ReasonAt(pc) == IF pc \in {"existsT", "markT"} THEN HIGH_TEMPERATURE ELSE HIGH_HUMIDITY

\* the exists command of the task has ended (ok: with reply `exists`)
AfterExists(t, ok, exists, by, conn, time) ==
    LET reason == ReasonAt(t.pc)
        was == wasAlertRecentlySent(TRUE, ok, exists)
        t2 == [t EXCEPT !.look[reason] =
                            IF ~ok THEN "failed"
                            ELSE IF exists = 1 THEN "present"
                            ELSE IF by # 0 THEN "expired" ELSE "absent",
                        !.saw[reason] = IF ok /\ exists = 1 THEN by ELSE 0]
    IN IF reason = HIGH_TEMPERATURE
       THEN DecideTemperature(t2, shouldSendAlert(was), conn, time)
       ELSE DecideHumidity(t2, shouldSendAlert(was), conn, time)

\* the setex command of the task has ended
AfterMark(t, ok, conn, time) ==
    LET reason == ReasonAt(t.pc)
        t2 == [t EXCEPT !.mark[reason] = IF ok THEN "set" ELSE "failed",
                        !.markAt[reason] = IF ok THEN time ELSE -1]
    IN IF reason = HIGH_TEMPERATURE
       THEN CheckHumidity(t2, conn, time)
       ELSE SendAlerts(t2, time)

(* ------------------------------ AuthGuard ------------------------------ *)
\* !x for a string or undefined
Falsy(x) == x = Undefined \/ x = <<>>

\* String.prototype.split(' ')
RECURSIVE Split(_)
Split(str) ==
    IF \A k \in 1..Len(str) : str[k] # " " THEN <<str>>
    ELSE LET k == CHOOSE j \in 1..Len(str) :
                      str[j] = " " /\ \A m \in 1..(j - 1) : str[m] # " "
         IN <<SubSeq(str, 1, k - 1)>> \o Split(SubSeq(str, k + 1, Len(str)))

\* (variant: the lengths are not compared; the characters of the shorter
\* string decide)
constantTimeComparePrefix(a, b) ==
    \A i \in 1..(IF Len(a) <= Len(b) THEN Len(a) ELSE Len(b)) : a[i] = b[i]

\* constantTimeCompare(a, b)
constantTimeCompare(a, b) ==
    IF Len(a) # Len(b) THEN FALSE
    ELSE \A i \in 1..Len(a) : a[i] = b[i]

Allowed == [allowed |-> TRUE, message |-> "none"]
Unauthorized(message) == [allowed |-> FALSE, message |-> message]

\* (variant: the guard asks for the header whether a token is configured or not)
canActivateAlwaysChecks(token, authHeader) ==
    IF Falsy(authHeader) THEN Unauthorized("Missing Authorization header")
    ELSE IF Falsy(token) THEN Allowed
    ELSE LET parts == Split(authHeader)
         IN IF parts[1] # Bearer THEN Unauthorized("Invalid authentication scheme. Use Bearer token.")
            ELSE IF Len(parts) < 2 \/ Falsy(parts[2])
                 THEN Unauthorized("Missing authentication token")
            ELSE IF ~constantTimeCompare(parts[2], token)
                 THEN Unauthorized("Invalid authentication token")
            ELSE Allowed

\* (variant: the token is compared before the scheme is looked at)
canActivateTokenFirst(token, authHeader) ==
    IF Falsy(token) THEN Allowed
    ELSE IF Falsy(authHeader) THEN Unauthorized("Missing Authorization header")
    ELSE LET parts == Split(authHeader)
         IN IF Len(parts) < 2 \/ Falsy(parts[2])
            THEN Unauthorized("Missing authentication token")
            ELSE IF ~constantTimeCompare(parts[2], token)
                 THEN Unauthorized("Invalid authentication token")
            ELSE IF parts[1] # Bearer THEN Unauthorized("Invalid authentication scheme. Use Bearer token.")
            ELSE Allowed

\* AuthGuard.canActivate with ingestToken = token on a request whose
\* Authorization header is authHeader: true, or the UnauthorizedException thrown
canActivate(token, authHeader) ==
    IF Falsy(token) THEN Allowed
    ELSE IF Falsy(authHeader) THEN Unauthorized("Missing Authorization header")
    ELSE LET parts == Split(authHeader)
             scheme == parts[1]
             tok == IF Len(parts) >= 2 THEN parts[2] ELSE Undefined
         IN IF scheme # Bearer THEN Unauthorized("Invalid authentication scheme. Use Bearer token.")
            ELSE IF Falsy(tok) THEN Unauthorized("Missing authentication token")
            ELSE IF ~constantTimeCompare(tok, token)
                 THEN Unauthorized("Invalid authentication token")
            ELSE Allowed

(* --------------------------- HealthController -------------------------- *)
\* the values of mongoose's Connection.readyState: disconnected, connected,
\* connecting, disconnecting
ReadyStates == 0..3

\* (variant: a failed ping is handed to the caller)
isHealthyRethrows(conn, ok) ==
    IF ~conn THEN [value |-> FALSE, raised |-> FALSE]
    ELSE IF ok THEN [value |-> TRUE, raised |-> FALSE]
    ELSE [value |-> FALSE, raised |-> TRUE]

\* RedisService.isHealthy: what it hands to its caller when the client is
\* connected or not (conn) and the ping succeeds or not (ok)
isHealthy(conn, ok) ==
    IF ~conn THEN [value |-> FALSE, raised |-> FALSE]
    ELSE IF ok THEN [value |-> TRUE, raised |-> FALSE]
    ELSE [value |-> FALSE, raised |-> FALSE]

\* the response checkHealth builds; state is readyState when it is built
HealthResponse(mongoHealthy, redisHealthy, state) ==
    [status |-> IF mongoHealthy /\ redisHealthy THEN "healthy" ELSE "unhealthy",
     mongodb |-> IF mongoHealthy THEN "up" ELSE "down",
     readyState |-> state,
     redis |-> IF redisHealthy THEN "up" ELSE "down"]

\* checkHealth from the end of `await this.redisService.isHealthy()` on
AfterIsHealthy(h, healthy, state) ==
    IF healthy.raised THEN [h EXCEPT !.pc = "failed"]
    ELSE [h EXCEPT !.pc = "returned",
                   !.response = HealthResponse(h.mongoHealthy, healthy.value, state)]

\* checkHealth, up to its first I/O.  conn and ping record what the call met:
\* the connection flag, and the ping ("none": not sent, "pending", "ok", "failed")
checkHealth(state, conn) ==
    LET h == [route |-> "health", pc |-> "ping", mongoHealthy |-> (state = 1),
              state |-> state, conn |-> conn, ping |-> IF conn THEN "pending" ELSE "none",
              response |-> HealthResponse(FALSE, FALSE, state)]
    IN IF conn THEN h ELSE AfterIsHealthy(h, isHealthy(conn, FALSE), state)

(* ------------------- TelemetryController and the pipe ------------------ *)
\* the decorators of TelemetryDto and MetricsDto (class-validator)
IsValidTelemetryDto(r) ==
    /\ r.deviceId # ""
    /\ r.siteId # ""
    /\ r.ts[1] = "iso"
    /\ r.temperature >= -100 /\ r.temperature <= 150
    /\ r.humidity >= 0 /\ r.humidity <= 100

\* JSON values of a body: an object is the record of its properties, an array
\* is a record holding its items
JsonArray(a) == [items |-> a]
\* Array.isArray(v)
IsArray(v) == "items" \in DOMAIN v
\* name in v
HasProperty(v, name) == name \in DOMAIN v

\* the body a client writes for the readings a in one of the three shapes:
\* the reading itself, [a1, ...], or { readings: [a1, ...] }
Shapes == {"single", "array", "bulk"}
Payload(shape, a) ==
    IF shape = "single" THEN a[1]
    ELSE IF shape = "array" THEN JsonArray(a)
    ELSE [readings |-> JsonArray(a)]

\* the sequences of readings clients put in a body, the empty one included
Sent == {<<>>} \cup SeqUpTo(BodyDto, MaxBatch)
\* the shapes a client can give to the readings a
ShapesOf(a) == IF Len(a) = 1 THEN Shapes ELSE {"array", "bulk"}
Bodies == UNION {{Payload(shape, a) : shape \in ShapesOf(a)} : a \in Sent}

\* the type TypeScript records for the parameter
\* `payload: TelemetryDto | BulkTelemetryDto | TelemetryDto[]`: a union is
\* recorded as Object
BodyMetatype == "Object"

\* ValidationPipe.toValidate: values declared with a built-in type are let through
toValidate(metatype) ==
    metatype \notin {"String", "Boolean", "Number", "Array", "Object", "Buffer", "Date"}

\* the global ValidationPipe on the body of ingestTelemetry
ValidationPipe(metatype, body) ==
    IF ~toValidate(metatype) THEN "passed"
    ELSE IF metatype = "BulkTelemetryDto"
         THEN IF /\ ~IsArray(body) /\ HasProperty(body, "readings")
                 /\ IsArray(body.readings)
                 /\ Len(body.readings.items) >= 1
                 /\ \A k \in 1..Len(body.readings.items) :
                       IsValidTelemetryDto(body.readings.items[k])
              THEN "passed" ELSE "BadRequest"
    ELSE IF /\ ~IsArray(body) /\ ~HasProperty(body, "readings")
            /\ IsValidTelemetryDto(body)
         THEN "passed" ELSE "BadRequest"

\* (variant: of an array only the first reading is taken)
NormalizeFirst(payload) ==
    LET First(a) == IF a = <<>> THEN <<>> ELSE <<a[1]>>
    IN IF IsArray(payload) THEN First(payload.items)
       ELSE IF HasProperty(payload, "readings") /\ IsArray(payload.readings)
            THEN First(payload.readings.items)
       ELSE <<payload>>

\* TelemetryController.ingestTelemetry: the readings handed to the service
Normalize(payload) ==
    IF IsArray(payload) THEN payload.items
    ELSE IF HasProperty(payload, "readings") /\ IsArray(payload.readings)
         THEN payload.readings.items
    ELSE <<payload>>

(* -------------------------- TelemetryService --------------------------- *)
\* new Date(reading.ts): a text that is no date gives Invalid Date
InvalidDate == <<"invalid date">>
NewDate(ts) == IF ts[1] = "iso" THEN <<"date", ts[2] * 1000>> ELSE InvalidDate

\* the validators of the Telemetry schema, run by insertMany before anything is
\* written: the required strings are not empty and ts casts to a date; the
\* metrics are numbers, no range is declared
SchemaValid(r) ==
    /\ r.deviceId # ""
    /\ r.siteId # ""
    /\ NewDate(r.ts) # InvalidDate
\* the _id MongoDB gives the id-th document of the collection
ObjectId(id) == <<"oid", id>>

\* the document insertMany stores for a reading; id is its place in the collection
Document(r, id) ==
    [id |-> ObjectId(id), deviceId |-> r.deviceId, siteId |-> r.siteId, ts |-> NewDate(r.ts),
     temperature |-> r.temperature, humidity |-> r.humidity]

\* insertMany(readings.map(...)) on collection s
InsertMany(s, readings) ==
    [i \in 1..Len(readings) |-> Document(readings[i], Len(s) + i)]

\* (variant: the write replaces what the collection held)
CollectionReplaced(s, documents) == documents

\* the collection after insertMany has written documents
Collection(s, documents) == s \o documents

\* (variant: the command is issued whatever the connection flag says)
cacheLatestReadingUnguarded(req, r, doc, conn) ==
    [req |-> req, r |-> r, doc |-> doc, pc |-> "setex"]

\* cacheLatestReading(reading, doc), up to its first I/O
cacheLatestReading(req, r, doc, conn) ==
    [req |-> req, r |-> r, doc |-> doc, pc |-> IF conn THEN "setex" ELSE "skipped"]

\* the promises the loop of ingestTelemetry starts
StartCacheTasks(q, readings, documents, conn) ==
    [i \in 1..Len(readings) |-> cacheLatestReading(q, readings[i], documents[i], conn)]
StartAlertTasks(q, readings, conn, time) ==
    [i \in 1..Len(readings) |-> checkAndAlert(q, readings[i], conn, time)]

\* (variant: the loop does not depend on the insert)
FanOutAlways(inserted, tasks) == tasks

\* the loop comes after `await insertMany`: it runs only when the insert resolved
FanOut(inserted, tasks) == IF inserted THEN tasks ELSE <<>>

\* (variant: the first document is left out of the result)
IngestReturnTail(q, documents) ==
    [q EXCEPT !.pc = "returned", !.result = Len(documents) - 1]

\* (variant: ingestTelemetry awaits the promises it started)
IngestReturnAwaits(q, documents) ==
    [q EXCEPT !.pc = "awaiting", !.result = Len(documents)]

\* (variant: the result counts the readings whose cache write was issued)
IngestReturnCached(q, documents) ==
    [q EXCEPT !.pc = "returned", !.result = IF isConnected THEN Len(documents) ELSE 0]

\* what ingestTelemetry returns to its caller once insertMany has resolved with
\* `documents`
IngestReturn(q, documents) ==
    [q EXCEPT !.pc = "returned", !.result = Len(documents)]

\* A TelemetryService.getLatest call.  cached: what the cache read met
\* ("down": not connected, "error": the get failed, "garbled": the text is not
\* JSON, "nil": no key, "hit"); text: the text the get replied; queries: the
\* findOne calls issued; at: the size of the collection when findOne resolved;
\* write: the cacheLatest call made after the store was read ("none",
\* "skipped": not connected, "setex": command pending, "cached", "failed").
NewLookup(deviceId) ==
    [deviceId |-> deviceId, pc |-> "get", cached |-> "pending", text |-> Nil,
     result |-> [found |-> FALSE], at |-> 0, queries |-> 0, write |-> "none",
     read |-> "none", error |-> "none"]

\* the errors a MongoDB call rejects with
StoreErrors == {"MongoNetworkError", "MongoServerError"}

\* (variant: a failed read is answered like a device without data)
StoreReadRejectedAsNotFound(c, error) ==
    [c EXCEPT !.pc = "notFound", !.error = "NotFoundException"]

\* `await` of a store read that rejects, in getLatest and in getSiteSummary:
\* there is no try / catch, the call is rejected with the same error
StoreReadRejected(c, error) == [c EXCEPT !.pc = "failed", !.error = error]

\* (variant: the store is consulted even on a hit)
AfterCacheReadQueries(l, cached) ==
    IF cached.raised THEN [l EXCEPT !.pc = "failed"]
    ELSE [l EXCEPT !.pc = "findOne", !.queries = @ + 1]

\* getLatest from `const cached = await this.redisService.getLatest(deviceId)`
\* on: a hit is returned, anything else issues findOne
AfterCacheRead(l, cached) ==
    IF cached.raised THEN [l EXCEPT !.pc = "failed"]
    ELSE IF cached.found
         THEN [l EXCEPT !.pc = "returned", !.result = [found |-> TRUE, value |-> cached.value]]
    ELSE [l EXCEPT !.pc = "findOne", !.queries = @ + 1]

\* getLatest(deviceId), up to its first I/O
StartGetLatest(deviceId, conn) ==
    IF conn THEN NewLookup(deviceId)
    ELSE AfterCacheRead([NewLookup(deviceId) EXCEPT !.cached = "down"],
                        getLatest(conn, TRUE, Nil))

\* the documents of the device among the first n of collection s
DocsOf(s, n, deviceId) == {s[k] : k \in {j \in 1..n : s[j].deviceId = deviceId}}

\* (variant: the sort is ascending)
FindOneLatestAscending(s, deviceId) ==
    LET docs == DocsOf(s, Len(s), deviceId)
    IN {doc \in docs : \A other \in docs : other.ts[2] >= doc.ts[2]}

\* findOne({ deviceId }).sort({ ts: -1 }): the documents it may resolve with,
\* those of the device with the greatest ts (none: it resolves with null)
FindOneLatest(s, deviceId) ==
    LET docs == DocsOf(s, Len(s), deviceId)
    IN {doc \in docs : \A other \in docs : other.ts[2] <= doc.ts[2]}

\* (variant: a device without readings gets an empty result)
AfterFindOneEmpty(l, found, doc, n, conn) ==
    IF ~found THEN [l EXCEPT !.pc = "returned", !.at = n]
    ELSE [l EXCEPT !.pc = "returned", !.at = n,
                   !.result = [found |-> TRUE, value |-> doc],
                   !.write = IF conn THEN "setex" ELSE "skipped"]

\* getLatest from the resolution of findOne on: NotFoundException, or the
\* cacheLatest call that is not awaited and the return of the document
AfterFindOne(l, found, doc, n, conn) ==
    IF ~found THEN [l EXCEPT !.pc = "notFound", !.at = n, !.error = "NotFoundException"]
    ELSE [l EXCEPT !.pc = "returned", !.at = n,
                   !.result = [found |-> TRUE, value |-> doc],
                   !.write = IF conn THEN "setex" ELSE "skipped"]

\* (variant: the upper bound of the interval is excluded)
MatchExclusive(s, siteId, fromDate, toDate) ==
    {s[k] : k \in {j \in 1..Len(s) : /\ s[j].siteId = siteId
                                      /\ s[j].ts[2] >= fromDate[2]
                                      /\ s[j].ts[2] < toDate[2]}}

\* $match: { siteId, ts: { $gte: fromDate, $lte: toDate } }
Match(s, siteId, fromDate, toDate) ==
    {s[k] : k \in {j \in 1..Len(s) : /\ s[j].siteId = siteId
                                      /\ s[j].ts[2] >= fromDate[2]
                                      /\ s[j].ts[2] <= toDate[2]}}

\* $sum / $max of a metric over a non-empty set of documents
RECURSIVE SumOf(_, _)
SumOf(docs, metric) ==
    IF docs = {} THEN 0
    ELSE LET doc == CHOOSE x \in docs : TRUE
         IN doc[metric] + SumOf(docs \ {doc}, metric)
MaxOf(docs, metric) ==
    CHOOSE v \in {doc[metric] : doc \in docs} : \A doc \in docs : doc[metric] <= v

\* $round: [num / den, 2], in hundredths; a tie goes to the even neighbour
Round2(num, den) ==
    LET scaled == num * 100
        low == scaled \div den
        rest == scaled % den
    IN IF 2 * rest > den \/ (2 * rest = den /\ low % 2 = 1) THEN low + 1 ELSE low

\* (variant: the devices are summed, not collected in a set)
UniqueDevicesSummed(docs) == Cardinality(docs)

\* $addToSet: '$deviceId' followed by $size
UniqueDevices(docs) == Cardinality({doc.deviceId : doc \in docs})

\* the rows the $group and $project stages give for the matched documents: no
\* row for none, else one row; averages and maxima are in hundredths
GroupProject(docs) ==
    IF docs = {} THEN <<>>
    ELSE << [count |-> Cardinality(docs),
             avgTemperature |-> Round2(SumOf(docs, "temperature"), Cardinality(docs)),
             maxTemperature |-> Round2(MaxOf(docs, "temperature"), 1),
             avgHumidity |-> Round2(SumOf(docs, "humidity"), Cardinality(docs)),
             maxHumidity |-> Round2(MaxOf(docs, "humidity"), 1),
             uniqueDevices |-> UniqueDevices(docs)] >>

\* telemetryModel.aggregate([...]) of getSiteSummary on collection s
Aggregate(s, siteId, from, to) == GroupProject(Match(s, siteId, NewDate(from), NewDate(to)))

\* the statistics returned when nothing matched
EmptySummary ==
    [count |-> 0, avgTemperature |-> 0, maxTemperature |-> 0,
     avgHumidity |-> 0, maxHumidity |-> 0, uniqueDevices |-> 0]

\* A getSiteSummary call; at: the size of the collection when aggregate
\* resolved (-1 before)
NewSummary(siteId, from, to) ==
    [siteId |-> siteId, from |-> from, to |-> to, pc |-> "aggregate", at |-> -1,
     read |-> "none", error |-> "none",
     result |-> EmptySummary]

\* (variant: an empty result is an error)
AfterAggregateRaises(c, result, n) ==
    IF Len(result) = 0 THEN [c EXCEPT !.pc = "failed", !.at = n]
    ELSE [c EXCEPT !.pc = "returned", !.at = n, !.result = result[1]]

\* getSiteSummary from the resolution of aggregate on
AfterAggregate(c, result, n) ==
    IF Len(result) = 0 THEN [c EXCEPT !.pc = "returned", !.at = n, !.result = EmptySummary]
    ELSE [c EXCEPT !.pc = "returned", !.at = n, !.result = result[1]]

\* what ingestTelemetry hands to its caller when insertMany rejects
IngestFail(q) == [q EXCEPT !.pc = "failed"]

\* a command or call may fail while the run has faults left
MayFail(ok) == ok \/ faults < MaxFaults
Count(ok) == IF ok THEN faults ELSE faults + 1

\* the readings submitted so far
Submitted == LET Sum[i \in 0..Len(requests)] ==
                     IF i = 0 THEN 0 ELSE Sum[i - 1] + Len(requests[i].readings)
             IN Sum[Len(requests)]

Init ==
    /\ isConnected = FALSE
    /\ now = 0
    /\ store = <<>>
    /\ latest = [d \in Devices |-> NoEntry]
    /\ marker = [k \in AlertKeys |-> NoMarker]
    /\ requests = <<>>
    /\ cacheTasks = <<>>
    /\ alertTasks = <<>>
    /\ lookups = <<>>
    /\ summaries = <<>>
    /\ ingestToken = Undefined
    /\ readyState = 1
    /\ http = <<>>
    /\ faults = 0

\* client.on('connect')
OnConnect ==
    /\ ~isConnected
    /\ isConnected' = TRUE
    /\ UNCHANGED <<now, store, latest, marker, requests, cacheTasks, alertTasks, faults, lookups, summaries, ingestToken, readyState, http>>

\* client.on('error') / client.on('close')
OnDisconnect ==
    /\ isConnected
    /\ faults < MaxFaults
    /\ isConnected' = FALSE
    /\ faults' = faults + 1
    /\ UNCHANGED <<now, store, latest, marker, requests, cacheTasks, alertTasks, lookups, summaries, ingestToken, readyState, http>>

\* time passes
Tick ==
    /\ now + TickStep <= MaxTime
    /\ now' = now + TickStep
    /\ UNCHANGED <<isConnected, store, latest, marker, requests, cacheTasks, alertTasks, faults, lookups, summaries, ingestToken, readyState, http>>

\* ingestTelemetry(readings) is called and issues insertMany
IngestCall ==
    \E readings \in SeqUpTo(TelemetryDto, MaxBatch) :
        /\ Submitted + Len(readings) <= MaxReadings
        /\ requests' = Append(requests, [readings |-> readings, pc |-> "inserting", result |-> 0])
        /\ UNCHANGED <<isConnected, now, store, latest, marker, cacheTasks, alertTasks, faults, lookups, summaries, ingestToken, readyState, http>>

\* insertMany resolves: the loop starts the two promises of every reading, and
\* ingestTelemetry returns the documents
InsertResolved ==
    \E q \in 1..Len(requests) :
        /\ requests[q].pc = "inserting"
        /\ \A k \in 1..Len(requests[q].readings) : SchemaValid(requests[q].readings[k])
        /\ LET readings == requests[q].readings
               documents == InsertMany(store, readings)
           IN /\ store' = Collection(store, documents)
              /\ cacheTasks' = cacheTasks \o
                    FanOut(TRUE, StartCacheTasks(q, readings, documents, isConnected))
              /\ alertTasks' = alertTasks \o
                    FanOut(TRUE, StartAlertTasks(q, readings, isConnected, now))
              /\ requests' = [requests EXCEPT ![q] = IngestReturn(@, documents)]
        /\ UNCHANGED <<isConnected, now, latest, marker, faults, lookups, summaries, ingestToken, readyState, http>>

\* insertMany rejects; the documents before the failing one (ordered insert)
\* stay in the collection
InsertRejected ==
    \E q \in 1..Len(requests) :
        /\ requests[q].pc = "inserting"
        /\ LET readings == requests[q].readings
               documents == InsertMany(store, readings)
           IN /\ \E k \in 0..(Len(readings) - 1) :
                    /\ (\E j \in 1..Len(readings) : ~SchemaValid(readings[j])) => k = 0
                    /\ store' = Collection(store, SubSeq(documents, 1, k))
              /\ cacheTasks' = cacheTasks \o
                    FanOut(FALSE, StartCacheTasks(q, readings, documents, isConnected))
              /\ alertTasks' = alertTasks \o
                    FanOut(FALSE, StartAlertTasks(q, readings, isConnected, now))
        /\ requests' = [requests EXCEPT ![q] = IngestFail(@)]
        /\ UNCHANGED <<isConnected, now, latest, marker, faults, lookups, summaries, ingestToken, readyState, http>>

\* the setex of a cacheLatest call ends
CacheSetexDone ==
    \E i \in 1..Len(cacheTasks), ok \in BOOLEAN :
        /\ cacheTasks[i].pc = "setex"
        /\ MayFail(ok)
        /\ faults' = Count(ok)
        /\ latest' = cacheLatest(latest, TRUE, ok, cacheTasks[i].r.deviceId,
                                 CacheData(cacheTasks[i].r, cacheTasks[i].doc), LatestTtl)
        /\ cacheTasks' = [cacheTasks EXCEPT ![i].pc = IF ok THEN "cached" ELSE "failed"]
        /\ UNCHANGED <<isConnected, now, store, marker, requests, alertTasks, lookups, summaries, ingestToken, readyState, http>>

\* the exists of a wasAlertRecentlySent call ends
ExistsDone ==
    \E i \in 1..Len(alertTasks), ok \in BOOLEAN :
        /\ alertTasks[i].pc \in {"existsT", "existsH"}
        /\ MayFail(ok)
        /\ faults' = Count(ok)
        /\ LET key == AlertKey(alertTasks[i].r.deviceId, ReasonAt(alertTasks[i].pc))
           IN alertTasks' = [alertTasks EXCEPT ![i] =
                  AfterExists(@, ok, RedisExists(marker, key, now), marker[key].by,
                              isConnected, now)]
        /\ UNCHANGED <<isConnected, now, store, latest, marker, requests, cacheTasks, lookups, summaries, ingestToken, readyState, http>>

\* the setex of a markAlertSent call ends
MarkDone ==
    \E i \in 1..Len(alertTasks), ok \in BOOLEAN :
        /\ alertTasks[i].pc \in {"markT", "markH"}
        /\ MayFail(ok)
        /\ faults' = Count(ok)
        /\ marker' = markAlertSent(marker, TRUE, ok, alertTasks[i].r.deviceId,
                                   ReasonAt(alertTasks[i].pc), dedupWindow, now, i)
        /\ alertTasks' = [alertTasks EXCEPT ![i] = AfterMark(@, ok, isConnected, now)]
        /\ UNCHANGED <<isConnected, now, store, latest, requests, cacheTasks, lookups, summaries, ingestToken, readyState, http>>

\* the webhook POST of a sendAlert call ends
PostDone ==
    \E i \in 1..Len(alertTasks), outcome \in Outcomes :
        /\ alertTasks[i].pc = "post"
        /\ MayFail(outcome = "success")
        /\ faults' = Count(outcome = "success")
        /\ alertTasks' = [alertTasks EXCEPT ![i] = AfterPost(@, outcome, now)]
        /\ marker' = MarkerAfterSend(marker,
                          alertTasks[i].posts[Len(alertTasks[i].posts)].alert, outcome)
        /\ UNCHANGED <<isConnected, now, store, latest, requests, cacheTasks, lookups, summaries, ingestToken, readyState, http>>

\* ingestTelemetry(readings) is called in a run that reads the readings back
IngestLatestCall ==
    \E readings \in SeqUpTo(LatestDto, MaxBatch) :
        /\ Submitted + Len(readings) <= MaxReadings
        /\ Submitted + Len(readings) + Len(lookups) <= MaxCalls
        /\ requests' = Append(requests, [readings |-> readings, pc |-> "inserting", result |-> 0])
        /\ UNCHANGED <<isConnected, now, store, latest, marker, cacheTasks, alertTasks, faults, lookups, summaries, ingestToken, readyState, http>>

\* getLatest(deviceId) is called
GetLatestCall ==
    \E deviceId \in Devices :
        /\ Len(lookups) < MaxLookups
        /\ Submitted + Len(lookups) < MaxCalls
        /\ lookups' = Append(lookups, StartGetLatest(deviceId, isConnected))
        /\ UNCHANGED <<isConnected, now, store, latest, marker, requests, cacheTasks, alertTasks, faults, summaries, ingestToken, readyState, http>>

\* the get of a RedisService.getLatest call ends: with the text under the key
\* (or nil), with an error, or with a text that is not JSON
CacheGetDone ==
    \E i \in 1..Len(lookups), reply \in {"ok", "error", "garbled"} :
        /\ lookups[i].pc = "get"
        /\ MayFail(reply = "ok")
        /\ faults' = Count(reply = "ok")
        /\ LET entry == latest[lookups[i].deviceId]
               text == IF reply = "garbled" THEN Garbled
                       ELSE IF reply = "error" \/ entry.ttl = 0 THEN Nil
                       ELSE entry.value
               met == IF reply = "ok" THEN (IF text = Nil THEN "nil" ELSE "hit") ELSE reply
           IN lookups' = [lookups EXCEPT ![i] =
                  AfterCacheRead([@ EXCEPT !.cached = met, !.text = text],
                                 getLatest(TRUE, reply # "error", text))]
        /\ UNCHANGED <<isConnected, now, store, latest, marker, requests, cacheTasks, alertTasks, summaries, ingestToken, readyState, http>>

\* findOne resolves, with a document or with null; a document found is written
\* to the cache without waiting and returned
FindOneResolved ==
    \E i \in 1..Len(lookups) :
        /\ lookups[i].pc = "findOne"
        /\ LET docs == FindOneLatest(store, lookups[i].deviceId)
           IN IF docs = {}
              THEN lookups' = [lookups EXCEPT ![i] =
                       AfterFindOne(@, FALSE, Nil, Len(store), isConnected)]
              ELSE \E doc \in docs :
                       lookups' = [lookups EXCEPT ![i] =
                           AfterFindOne(@, TRUE, doc, Len(store), isConnected)]
        /\ UNCHANGED <<isConnected, now, store, latest, marker, requests, cacheTasks, alertTasks, faults, summaries, ingestToken, readyState, http>>

\* findOne rejects: getLatest has no handler, its promise is rejected
FindOneRejected ==
    \E i \in 1..Len(lookups), error \in StoreErrors :
        /\ lookups[i].pc = "findOne"
        /\ MayFail(FALSE)
        /\ faults' = Count(FALSE)
        /\ lookups' = [lookups EXCEPT ![i] =
               StoreReadRejected([@ EXCEPT !.read = "rejected"], error)]
        /\ UNCHANGED <<isConnected, now, store, latest, marker, requests, cacheTasks, alertTasks, summaries, ingestToken, readyState, http>>

\* the setex of the cacheLatest call of a getLatest ends
RepopulateDone ==
    \E i \in 1..Len(lookups), ok \in BOOLEAN :
        /\ lookups[i].write = "setex"
        /\ MayFail(ok)
        /\ faults' = Count(ok)
        /\ latest' = cacheLatest(latest, TRUE, ok, lookups[i].deviceId,
                                 lookups[i].result.value, LatestTtl)
        /\ lookups' = [lookups EXCEPT ![i].write = IF ok THEN "cached" ELSE "failed"]
        /\ UNCHANGED <<isConnected, now, store, marker, requests, cacheTasks, alertTasks, summaries, ingestToken, readyState, http>>

\* the ttl of a latest key runs out (24 hours, far beyond the clock of this
\* module): Redis drops the key
LatestExpires ==
    \E deviceId \in Devices :
        /\ latest[deviceId].ttl # 0
        /\ latest' = [latest EXCEPT ![deviceId] = NoEntry]
        /\ UNCHANGED <<isConnected, now, store, marker, requests, cacheTasks, alertTasks, lookups, faults, summaries, ingestToken, readyState, http>>

\* ingestTelemetry(readings) is called in a run that summarises a site
IngestSummaryCall ==
    \E readings \in SeqUpTo(SummaryDto, MaxBatch) :
        /\ Submitted + Len(readings) <= MaxStored
        /\ requests' = Append(requests, [readings |-> readings, pc |-> "inserting", result |-> 0])
        /\ UNCHANGED <<isConnected, now, store, latest, marker, cacheTasks, alertTasks, faults, lookups, summaries, ingestToken, readyState, http>>

\* getSiteSummary(siteId, from, to) is called and issues aggregate
SummaryCall ==
    \E siteId \in Sites, from \in 1..MaxInstant, to \in 1..MaxInstant :
        /\ Len(summaries) < MaxSummaries
        /\ summaries' = Append(summaries, NewSummary(siteId, IsoString(from), IsoString(to)))
        /\ UNCHANGED <<isConnected, now, store, latest, marker, requests, cacheTasks, alertTasks, lookups, faults, ingestToken, readyState, http>>

\* getSiteSummary(siteId, from, to) is called for the whole range of instants
SummaryAllCall ==
    \E siteId \in Sites :
        /\ Len(summaries) < MaxSummaries
        /\ summaries' = Append(summaries, NewSummary(siteId, IsoString(1), IsoString(MaxInstant)))
        /\ UNCHANGED <<isConnected, now, store, latest, marker, requests, cacheTasks, alertTasks, lookups, faults, ingestToken, readyState, http>>

\* aggregate resolves
AggregateResolved ==
    \E i \in 1..Len(summaries) :
        /\ summaries[i].pc = "aggregate"
        /\ summaries' = [summaries EXCEPT ![i] =
               AfterAggregate(@, Aggregate(store, @.siteId, @.from, @.to), Len(store))]
        /\ UNCHANGED <<isConnected, now, store, latest, marker, requests, cacheTasks, alertTasks, lookups, faults, ingestToken, readyState, http>>

\* aggregate rejects: getSiteSummary has no handler, its promise is rejected
AggregateRejected ==
    \E i \in 1..Len(summaries), error \in StoreErrors :
        /\ summaries[i].pc = "aggregate"
        /\ MayFail(FALSE)
        /\ faults' = Count(FALSE)
        /\ summaries' = [summaries EXCEPT ![i] =
               StoreReadRejected([@ EXCEPT !.read = "rejected"], error)]
        /\ UNCHANGED <<isConnected, now, store, latest, marker, requests, cacheTasks, alertTasks, lookups, ingestToken, readyState, http>>

\* a request arrives at a route behind the guard: canActivate decides
GuardedRequest ==
    \E authHeader \in Headers :
        /\ Len(http) < MaxHttp
        /\ http' = Append(http, [route |-> "guard", authorization |-> authHeader,
                                 guard |-> canActivate(ingestToken, authHeader)])
        /\ UNCHANGED <<isConnected, now, store, latest, marker, requests, cacheTasks,
                       alertTasks, lookups, summaries, ingestToken, readyState, faults>>

\* POST /telemetry: the guard, the pipe, the controller, and the call of
\* ingestTelemetry, which issues insertMany
PostTelemetry ==
    \E authHeader \in {Undefined}, sent \in Sent : \E shape \in ShapesOf(sent) :
        /\ Len(http) < MaxHttp
        /\ LET body == Payload(shape, sent)
               guard == canActivate(ingestToken, authHeader)
               pipe == IF guard.allowed THEN ValidationPipe(BodyMetatype, body) ELSE "none"
               called == guard.allowed /\ pipe = "passed"
           IN /\ http' = Append(http, [route |-> "telemetry", authorization |-> authHeader,
                                       guard |-> guard, shape |-> shape, sent |-> sent,
                                       body |-> body, pipe |-> pipe,
                                       req |-> IF called THEN Len(requests) + 1 ELSE 0])
              /\ requests' = IF called
                             THEN Append(requests, [readings |-> Normalize(body),
                                                    pc |-> "inserting", result |-> 0])
                             ELSE requests
        /\ UNCHANGED <<isConnected, now, store, latest, marker, cacheTasks, alertTasks,
                       lookups, summaries, ingestToken, readyState, faults>>

\* the MongoDB connection changes its state
MongoStateChange ==
    \E state \in ReadyStates :
        /\ state # readyState
        /\ readyState' = state
        /\ UNCHANGED <<isConnected, now, store, latest, marker, requests, cacheTasks,
                       alertTasks, lookups, summaries, ingestToken, http, faults>>

\* GET /health
HealthCall ==
    /\ Len(http) < MaxHttp
    /\ http' = Append(http, checkHealth(readyState, isConnected))
    /\ UNCHANGED <<isConnected, now, store, latest, marker, requests, cacheTasks,
                   alertTasks, lookups, summaries, ingestToken, readyState, faults>>

\* the ping of an isHealthy call ends
PingDone ==
    \E k \in 1..Len(http), ok \in BOOLEAN :
        /\ http[k].route = "health"
        /\ http[k].pc = "ping"
        /\ MayFail(ok)
        /\ faults' = Count(ok)
        /\ http' = [http EXCEPT ![k] =
               AfterIsHealthy([@ EXCEPT !.ping = IF ok THEN "ok" ELSE "failed"],
                              isHealthy(TRUE, ok), readyState)]
        /\ UNCHANGED <<isConnected, now, store, latest, marker, requests, cacheTasks,
                       alertTasks, lookups, summaries, ingestToken, readyState>>

Next ==
    \/ OnConnect
    \/ OnDisconnect
    \/ Tick
    \/ IngestCall
    \/ InsertResolved
    \/ InsertRejected
    \/ CacheSetexDone
    \/ ExistsDone
    \/ MarkDone
    \/ PostDone

Spec == Init /\ [][Next]_vars

\* The pipeline when Redis and the webhook answer: ioredis settles every
\* command it was given (maxRetriesPerRequest: 3) and the POST ends by a
\* response, an error or its 5 s timeout.
SpecFair ==
    /\ Spec
    /\ WF_vars(ExistsDone)
    /\ WF_vars(MarkDone)
    /\ WF_vars(PostDone)

\* the runs in which clients also read the latest reading of a device
NextLatest ==
    \/ OnConnect
    \/ OnDisconnect
    \/ IngestLatestCall
    \/ InsertResolved
    \/ InsertRejected
    \/ CacheSetexDone
    \/ ExistsDone
    \/ MarkDone
    \/ PostDone
    \/ GetLatestCall
    \/ CacheGetDone
    \/ FindOneResolved
    \/ FindOneRejected
    \/ RepopulateDone
    \/ LatestExpires

SpecLatest == Init /\ [][NextLatest]_vars

\* the runs in which clients also ask for the summary of a site; getSiteSummary
\* reads the collection only, so these runs leave Redis disconnected
NextSummary ==
    \/ IngestSummaryCall
    \/ InsertResolved
    \/ InsertRejected
    \/ SummaryCall
    \/ AggregateResolved
    \/ AggregateRejected

SpecSummary == Init /\ [][NextSummary]_vars

\* The runs in which clients use both read paths.  They read the collection
\* only: such a run starts with an empty collection or after one ingest call
\* has returned, and leaves Redis disconnected.
InitReads ==
    /\ isConnected = FALSE
    /\ now = 0
    /\ latest = [d \in Devices |-> NoEntry]
    /\ marker = [k \in AlertKeys |-> NoMarker]
    /\ lookups = <<>>
    /\ summaries = <<>>
    /\ ingestToken = Undefined
    /\ readyState = 1
    /\ http = <<>>
    /\ faults = 0
    /\ \/ /\ store = <<>>
          /\ requests = <<>>
          /\ cacheTasks = <<>>
          /\ alertTasks = <<>>
       \/ \E readings \in SeqUpTo(SummaryDto, MaxBatch) :
             LET documents == InsertMany(<<>>, readings)
             IN /\ store = documents
                /\ requests = << IngestReturn([readings |-> readings, pc |-> "inserting",
                                               result |-> 0], documents) >>
                /\ cacheTasks = FanOut(TRUE, StartCacheTasks(1, readings, documents, FALSE))
                /\ alertTasks = FanOut(TRUE, StartAlertTasks(1, readings, FALSE, 0))

NextReads ==
    \/ GetLatestCall
    \/ FindOneResolved
    \/ FindOneRejected
    \/ SummaryCall
    \/ AggregateResolved
    \/ AggregateRejected

SpecReads == InitReads /\ [][NextReads]_vars

\* The guard on its own: the application is constructed with some value of
\* INGEST_TOKEN and answers guarded requests.
InitAuth ==
    /\ isConnected = FALSE
    /\ now = 0
    /\ store = <<>>
    /\ latest = [d \in Devices |-> NoEntry]
    /\ marker = [k \in AlertKeys |-> NoMarker]
    /\ requests = <<>>
    /\ cacheTasks = <<>>
    /\ alertTasks = <<>>
    /\ lookups = <<>>
    /\ summaries = <<>>
    /\ ingestToken \in Tokens
    /\ readyState = 1
    /\ http = <<>>
    /\ faults = 0

NextAuth == GuardedRequest

\* the runs of POST /telemetry, with Redis left disconnected
NextPost ==
    \/ PostTelemetry
    \/ InsertResolved
    \/ InsertRejected
    \/ PostDone

SpecPost == Init /\ [][NextPost]_vars

\* the runs of GET /health
NextHealth ==
    \/ OnConnect
    \/ OnDisconnect
    \/ MongoStateChange
    \/ HealthCall
    \/ PingDone

SpecHealth == Init /\ [][NextHealth]_vars

SpecAuth == InitAuth /\ [][NextAuth]_vars

\* the runs in which clients use every operation of TelemetryService
NextAll ==
    \/ OnConnect
    \/ OnDisconnect
    \/ IngestLatestCall
    \/ InsertResolved
    \/ InsertRejected
    \/ CacheSetexDone
    \/ ExistsDone
    \/ MarkDone
    \/ PostDone
    \/ GetLatestCall
    \/ CacheGetDone
    \/ FindOneResolved
    \/ FindOneRejected
    \/ RepopulateDone
    \/ SummaryAllCall
    \/ AggregateResolved
    \/ AggregateRejected

SpecAll == Init /\ [][NextAll]_vars

\* the runs in which clients ingest and summarise while Redis and the webhook
\* behave in every way: connection lost and regained, commands and calls
\* failing, latest keys and alert markers running out
NextDurable ==
    \/ OnConnect
    \/ OnDisconnect
    \/ Tick
    \/ IngestLatestCall
    \/ InsertResolved
    \/ InsertRejected
    \/ CacheSetexDone
    \/ ExistsDone
    \/ MarkDone
    \/ PostDone
    \/ LatestExpires
    \/ SummaryAllCall
    \/ AggregateResolved
    \/ AggregateRejected

SpecDurable == Init /\ [][NextDurable]_vars

(* ====================== properties of the pipeline ===================== *)
Requests == 1..Len(requests)
AlertTasks == 1..Len(alertTasks)
CacheTasks == 1..Len(cacheTasks)

\* the webhook calls task i has issued for `reason`
PostsFor(i, reason) ==
    {k \in 1..Len(alertTasks[i].posts) : alertTasks[i].posts[k].alert.reason = reason}

\* the alert tasks / cache tasks started by request q
AlertTasksOf(q) == {i \in AlertTasks : alertTasks[i].req = q}
CacheTasksOf(q) == {i \in CacheTasks : cacheTasks[i].req = q}

Lookups == 1..Len(lookups)
\* the getLatest calls that have ended
Ended == {i \in Lookups : lookups[i].pc \in {"returned", "notFound", "failed"}}
\* the getLatest calls whose findOne has resolved
Resolved == {i \in Lookups : lookups[i].queries = 1 /\ lookups[i].pc \in {"returned", "notFound"}}
\* the documents of its device that call i could see when its findOne resolved
Seen(i) == DocsOf(store, lookups[i].at, lookups[i].deviceId)
\* document doc is one of the latest of the set docs
Greatest(doc, docs) == doc \in docs /\ \A other \in docs : other.ts[2] <= doc.ts[2]

\* the getSiteSummary calls whose aggregate has resolved
Summarised == {i \in 1..Len(summaries) : summaries[i].at >= 0}
\* the places in the collection of the readings call i had to count: those of
\* its site, stored when its aggregate resolved, from <= ts <= to
Matching(i) ==
    LET c == summaries[i]
    IN {k \in 1..c.at : /\ store[k].siteId = c.siteId
                        /\ c.from[2] * 1000 <= store[k].ts[2]
                        /\ store[k].ts[2] <= c.to[2] * 1000}

\* every cache command of task i was issued on a connected client and succeeded
CacheWorkedFor(i) ==
    \A reason \in AlertReason :
        /\ alertTasks[i].look[reason] \notin {"down", "failed"}
        /\ alertTasks[i].mark[reason] \notin {"down", "failed"}

\* C1: a call of ingestTelemetry whose insert succeeded returns exactly as many
\* records as it was given readings (at least one), whatever the cache and the
\* notifier do.
C1_ReturnsAllReadings ==
    \A q \in Requests :
        requests[q].pc = "returned" =>
            /\ Len(requests[q].readings) >= 1
            /\ requests[q].result = Len(requests[q].readings)

\* a batch of two was returned although the cache was down for one of its
\* readings and a webhook call of the batch failed
C1_Witness ==
    \E q \in Requests :
        /\ requests[q].pc = "returned"
        /\ requests[q].result = 2
        /\ \E i \in AlertTasksOf(q) : alertTasks[i].look[HIGH_TEMPERATURE] = "down"
        /\ \E i \in AlertTasksOf(q), k \in 1..2 :
              k <= Len(alertTasks[i].posts) /\ alertTasks[i].posts[k].result = "caught"

\* C2: a call whose insert failed is failed, and it has started no cache write,
\* no dedup lookup, no marker write and no webhook call.
C2_FailedInsertStartsNothing ==
    \A q \in Requests :
        requests[q].pc # "returned" => AlertTasksOf(q) = {} /\ CacheTasksOf(q) = {}

\* a batch of two failed after its first document had been stored
C2_Witness ==
    \E q \in Requests :
        /\ requests[q].pc = "failed"
        /\ Len(requests[q].readings) = 2
        /\ Len(store) = 1

\* C3: as soon as the background promises of a call exist the call has returned
\* its documents, and it stays so whatever becomes of them: pending for ever,
\* completed, or failed.
C3_ReturnsWithoutWaiting ==
    \A q \in Requests :
        (AlertTasksOf(q) # {} \/ CacheTasksOf(q) # {}) =>
            /\ requests[q].pc = "returned"
            /\ requests[q].result = Len(requests[q].readings)

\* a call has returned while none of its cache commands has completed
C3_Witness ==
    \E q \in Requests :
        /\ requests[q].pc = "returned"
        /\ \A i \in CacheTasksOf(q) : cacheTasks[i].pc = "setex"
        /\ \A i \in AlertTasksOf(q) : alertTasks[i].pc = "existsT"
        /\ AlertTasksOf(q) # {}

\* C4: with the cache connected and working, no two alerts for the same device
\* and reason are both delivered less than one dedup window (60 s) apart.
C4_NoDuplicateInWindow ==
    \A i, j \in AlertTasks :
        \A k \in 1..Len(alertTasks[i].posts), l \in 1..Len(alertTasks[j].posts) :
            LET a == alertTasks[i].posts[k]
                b == alertTasks[j].posts[l]
            IN (/\ <<i, k>> # <<j, l>>
                /\ CacheWorkedFor(i) /\ CacheWorkedFor(j)
                /\ a.result = "sent" /\ b.result = "sent"
                /\ a.alert.deviceId = b.alert.deviceId
                /\ a.alert.reason = b.alert.reason
                /\ a.at <= b.at)
               => b.at - a.at >= 60

\* C5: when the HIGH_TEMPERATURE lookup of a second reading finds the marker a
\* first reading of the device has set, the two evaluations together make
\* exactly one HIGH_TEMPERATURE webhook call.
C5_SecondReadingSuppressed ==
    \A i, j \in AlertTasks :
        (/\ alertTasks[j].saw[HIGH_TEMPERATURE] = i
         /\ alertTasks[i].pc = "done"
         /\ alertTasks[j].pc = "done")
        => Cardinality(PostsFor(i, HIGH_TEMPERATURE))
               + Cardinality(PostsFor(j, HIGH_TEMPERATURE)) = 1

C5_Witness ==
    \E i, j \in AlertTasks :
        /\ i # j
        /\ alertTasks[j].saw[HIGH_TEMPERATURE] = i
        /\ alertTasks[i].r.temperature > 50 /\ alertTasks[j].r.temperature > 50
        /\ alertTasks[i].pc = "done" /\ alertTasks[j].pc = "done"
        /\ CacheWorkedFor(i) /\ CacheWorkedFor(j)

\* C6 as stated: a reading whose lookup finds the marker expired is delivered
\* and sets a fresh marker.
C6_ExpiredThenFreshMarker ==
    \A i \in AlertTasks, reason \in AlertReason :
        (alertTasks[i].look[reason] = "expired" /\ alertTasks[i].pc = "done")
        => /\ PostsFor(i, reason) # {}
           /\ alertTasks[i].mark[reason] = "set"

\* C6 amended: a reading whose lookup finds the marker expired is delivered
\* again, and when its marker write succeeds the marker it sets expires one
\* configured window (60 s) after the write.
C6_ExpiredThenDelivered ==
    \A i \in AlertTasks, reason \in AlertReason :
        LET t == alertTasks[i]
            key == <<t.r.deviceId, reason>>
        IN t.look[reason] = "expired" =>
            /\ t.pc = "done" => Cardinality(PostsFor(i, reason)) = 1
            /\ (t.mark[reason] = "set" /\ marker[key].by = i)
                  => marker[key].expiry = t.markAt[reason] + 60

C6_Witness ==
    \E i \in AlertTasks, reason \in AlertReason :
        LET t == alertTasks[i]
            key == <<t.r.deviceId, reason>>
        IN /\ t.look[reason] = "expired"
           /\ t.pc = "done"
           /\ PostsFor(i, reason) # {}
           /\ t.mark[reason] = "set"
           /\ marker[key].by = i
           /\ marker[key].expiry > now

\* C7: a reason is considered exactly when its metric is strictly above its
\* threshold (50, 90); a reading at the threshold makes no lookup, no marker
\* and no webhook call for the reason, and one above it that finds no marker is
\* delivered.
C7_StrictThresholds ==
    \A i \in AlertTasks :
        LET t == alertTasks[i] IN
        /\ (t.look[HIGH_TEMPERATURE] # "skip") <=> (t.r.temperature > 50)
        /\ t.pc \notin {"existsT", "markT"} =>
              ((t.look[HIGH_HUMIDITY] # "skip") <=> (t.r.humidity > 90))
        /\ \A reason \in AlertReason :
              /\ t.look[reason] = "skip" =>
                    /\ PostsFor(i, reason) = {}
                    /\ t.mark[reason] = "none"
                    /\ \A k \in 1..Len(t.alerts) : t.alerts[k].reason # reason
              /\ (t.look[reason] \in {"absent", "expired"} /\ t.pc = "done") =>
                    PostsFor(i, reason) # {}

C7_Witness ==
    \E i, j \in AlertTasks :
        /\ alertTasks[i].r.temperature = 50 /\ alertTasks[i].r.humidity = 90
        /\ alertTasks[i].pc = "done" /\ alertTasks[i].posts = <<>>
        /\ alertTasks[j].r.temperature = 51 /\ alertTasks[j].r.humidity = 91
        /\ alertTasks[j].pc = "done"
        /\ alertTasks[j].look = [x \in AlertReason |-> "absent"]
        /\ Len(alertTasks[j].posts) = 2

\* C8 as stated: a reading above both thresholds that finds no marker makes
\* two webhook calls and sets two markers.
C8_DualAlertSetsMarkers ==
    \A i \in AlertTasks :
        LET t == alertTasks[i] IN
        (/\ t.r.temperature > 50 /\ t.r.humidity > 90
         /\ \A reason \in AlertReason : t.look[reason] \in {"absent", "expired"}
         /\ t.pc = "done")
        => /\ Len(t.posts) = 2
           /\ \A reason \in AlertReason : t.mark[reason] = "set"

\* C8 amended: a reading above both thresholds that finds no marker makes
\* exactly two webhook calls, one per reason; every marker write that succeeds
\* sets the marker of the task's own device and reason; and a lookup is only
\* ever answered by a marker that was set for the same device and reason.
C8_DualAlertIndependent ==
    /\ \A i \in AlertTasks :
          LET t == alertTasks[i] IN
          (/\ t.r.temperature > 50 /\ t.r.humidity > 90
           /\ \A reason \in AlertReason : t.look[reason] \in {"absent", "expired"}
           /\ t.pc = "done")
          => /\ Len(t.posts) = 2
             /\ \A reason \in AlertReason : Cardinality(PostsFor(i, reason)) = 1
    /\ \A key \in DOMAIN marker :
          LET by == marker[key].by IN
          by # 0 => /\ alertTasks[by].r.deviceId = key[1]
                    /\ alertTasks[by].mark[key[2]] = "set"
    /\ \A i \in AlertTasks, reason \in AlertReason :
          LET t == alertTasks[i] IN
          t.look[reason] = "present" =>
              /\ t.saw[reason] \in AlertTasks
              /\ alertTasks[t.saw[reason]].r.deviceId = t.r.deviceId
              /\ alertTasks[t.saw[reason]].mark[reason] = "set"

C8_Witness ==
    \E i \in AlertTasks :
        LET t == alertTasks[i] IN
        /\ t.r.temperature > 50 /\ t.r.humidity > 90
        /\ \A reason \in AlertReason : t.look[reason] = "absent" /\ t.mark[reason] = "set"
        /\ t.pc = "done"
        /\ Len(t.posts) = 2
        /\ marker[<<t.r.deviceId, HIGH_TEMPERATURE>>].by = i
        /\ marker[<<t.r.deviceId, HIGH_HUMIDITY>>].by = i

\* C9: a dedup lookup made while the client is not connected, or whose exists
\* command fails, counts as "not recently sent": the alert is queued and, by
\* the end of the evaluation, a webhook call has been made for it.
C9_DedupFailsOpen ==
    \A i \in AlertTasks, reason \in AlertReason :
        LET t == alertTasks[i] IN
        t.look[reason] \in {"down", "failed"} =>
            /\ \E k \in 1..Len(t.alerts) : t.alerts[k].reason = reason
            /\ t.pc = "done" => PostsFor(i, reason) # {}

\* a crossing evaluated during an outage was sent although its marker is live
C9_Witness ==
    \E i \in AlertTasks, reason \in AlertReason :
        LET t == alertTasks[i] IN
        /\ t.look[reason] \in {"down", "failed"}
        /\ marker[<<t.r.deviceId, reason>>].expiry > now
        /\ marker[<<t.r.deviceId, reason>>].by # i
        /\ t.pc = "done"
        /\ PostsFor(i, reason) # {}

\* C10: no checkAndAlert promise is ever rejected: after a failed webhook call
\* or a failed cache command the evaluation goes on to its end, and the ingest
\* call that started it stays returned.
C10_CheckAndAlertNeverRaises ==
    \A i \in AlertTasks :
        LET t == alertTasks[i] IN
        /\ t.pc # "rejected"
        /\ \A k \in 1..Len(t.posts) : t.posts[k].result # "thrown"
        /\ requests[t.req].pc = "returned"

\* an evaluation ended normally after the cache was down and the webhook failed
C10_Witness ==
    \E i \in AlertTasks :
        LET t == alertTasks[i] IN
        /\ t.pc = "done"
        /\ t.look[HIGH_TEMPERATURE] = "down"
        /\ Len(t.posts) >= 1
        /\ t.posts[1].result = "caught"

\* C11: when the webhook call of an alert has failed, the marker set for it
\* stays until its window (60 s) has run out, the alert is not sent a second
\* time, and an evaluation whose lookup finds that marker makes no marker write
\* and no webhook call for the reason.
C11_FailedDeliveryKeepsMarker ==
    \A i \in AlertTasks, reason \in AlertReason :
        LET t == alertTasks[i]
            key == <<t.r.deviceId, reason>>
        IN (/\ t.mark[reason] = "set"
            /\ \E k \in PostsFor(i, reason) : t.posts[k].result = "caught")
           => /\ marker[key].expiry >= t.markAt[reason] + 60
              /\ Cardinality(PostsFor(i, reason)) = 1
              /\ \A j \in AlertTasks :
                    alertTasks[j].saw[reason] = i =>
                        /\ PostsFor(j, reason) = {}
                        /\ alertTasks[j].mark[reason] = "none"

\* a crossing was suppressed by the marker of an alert whose delivery failed
C11_Witness ==
    \E i, j \in AlertTasks, reason \in AlertReason :
        LET t == alertTasks[i] IN
        /\ t.mark[reason] = "set"
        /\ \E k \in PostsFor(i, reason) : t.posts[k].result = "caught"
        /\ alertTasks[j].saw[reason] = i
        /\ alertTasks[j].pc = "done" /\ t.pc = "done"
        /\ marker[<<t.r.deviceId, reason>>].expiry > now

\* C12: no cache operation raises to its caller.  A getLatest call whose cache
\* read failed or gave a text that is not JSON goes on to the store exactly as
\* after a miss, and is rejected only when the store query fails; a failed
\* cache write leaves no entry and the ingest call stays returned; a failed
\* dedup lookup or marker write does not reject the evaluation.
C12_CacheNeverRaises ==
    /\ \A i \in Lookups :
          LET l == lookups[i] IN
          /\ l.pc = "failed" => l.queries = 1
          /\ l.cached \in {"down", "error", "garbled", "nil"} =>
                /\ l.queries = 1
                /\ l.pc = "returned" => Greatest(l.result.value, Seen(i))
    /\ \A i \in CacheTasks : requests[cacheTasks[i].req].pc = "returned"
    /\ \A d \in Devices :
          latest[d].ttl # 0 =>
              \/ \E i \in CacheTasks : cacheTasks[i].r.deviceId = d /\ cacheTasks[i].pc = "cached"
              \/ \E i \in Lookups : lookups[i].deviceId = d /\ lookups[i].write = "cached"
    /\ \A i \in AlertTasks :
          /\ alertTasks[i].pc # "rejected"
          /\ (\E reason \in AlertReason :
                 alertTasks[i].look[reason] = "failed" \/ alertTasks[i].mark[reason] = "failed")
             => alertTasks[i].pc \in {"markT", "existsH", "markH", "post", "done"}

\* a getLatest call returned the stored reading after its cache read failed
C12_Witness ==
    \E i \in Lookups :
        /\ lookups[i].cached \in {"error", "garbled"}
        /\ lookups[i].pc = "returned"
        /\ lookups[i].result.found

\* C13: a getLatest call whose cache read found an entry returns the value of
\* that entry's text, issues no store query and makes no cache write.
C13_HitReturnsEntry ==
    \A i \in Lookups :
        LET l == lookups[i] IN
        l.cached = "hit" =>
            /\ l.pc = "returned"
            /\ l.result = [found |-> TRUE, value |-> JsonParse(l.text).value]
            /\ l.queries = 0
            /\ l.at = 0
            /\ l.write = "none"

\* a getLatest call was served from the cache while the store held the reading
C13_Witness ==
    \E i \in Lookups :
        /\ lookups[i].cached = "hit"
        /\ lookups[i].pc = "returned"
        /\ DocsOf(store, Len(store), lookups[i].deviceId) # {}

\* C14: a getLatest call that has ended has failed with NotFound exactly when
\* its cache read gave no entry and its store query resolved without a
\* document of the device in the collection.
C14_NotFoundIff ==
    \A i \in Ended :
        LET l == lookups[i] IN
        l.pc = "notFound" <=> (l.cached # "hit" /\ i \in Resolved /\ Seen(i) = {})

\* NotFound for a device without readings while another device has one
C14_Witness ==
    \E i \in Lookups :
        /\ lookups[i].pc = "notFound"
        /\ lookups[i].cached = "nil"
        /\ lookups[i].at >= 1

\* C15: a getLatest call that missed the cache and whose store query resolved
\* over at least one document of the device returns a document of the device
\* with the greatest ts and has made one cacheLatest call for it, whatever
\* became of that call.
C15_MissReturnsGreatest ==
    \A i \in Resolved :
        LET l == lookups[i] IN
        (l.cached # "hit" /\ Seen(i) # {}) =>
            /\ l.pc = "returned"
            /\ l.result.found
            /\ Greatest(l.result.value, Seen(i))
            /\ l.write \in {"skipped", "setex", "cached", "failed"}

\* the later of two stored readings was returned and its cache write failed
C15_Witness ==
    \E i \in Resolved :
        /\ lookups[i].cached \in {"nil", "error", "garbled"}
        /\ lookups[i].write = "failed"
        /\ Cardinality({doc.ts : doc \in Seen(i)}) = 2
        /\ lookups[i].result.value.ts = NewDate(IsoString(2))

\* no cache operation of the run so far found the client connected
CacheUnavailable ==
    /\ ~isConnected
    /\ \A i \in CacheTasks : cacheTasks[i].pc = "skipped"
    /\ \A i \in Lookups : lookups[i].cached = "down" /\ lookups[i].write \in {"none", "skipped"}
    /\ \A i \in AlertTasks, reason \in AlertReason :
          /\ alertTasks[i].look[reason] \in {"none", "skip", "down"}
          /\ alertTasks[i].mark[reason] \in {"none", "down"}

\* C16: while no cache operation has found the client connected, an ingest
\* call fails only by its insert (it then started nothing) and otherwise
\* returns all its documents, and a getLatest call is rejected only by a failed
\* store query and otherwise ends with a document of the device with the
\* greatest ts, or with NotFound when the collection has none.
C16_WorksWithoutCache ==
    CacheUnavailable =>
        /\ \A q \in Requests :
              /\ requests[q].pc \in {"inserting", "returned", "failed"}
              /\ requests[q].pc = "returned" => requests[q].result = Len(requests[q].readings)
              /\ requests[q].pc = "failed" => CacheTasksOf(q) = {} /\ AlertTasksOf(q) = {}
        /\ \A i \in Ended :
              LET l == lookups[i] IN
              /\ l.queries = 1
              /\ l.pc # "failed" =>
                    IF Seen(i) = {} THEN l.pc = "notFound"
                    ELSE l.pc = "returned" /\ Greatest(l.result.value, Seen(i))

\* without a cache: two readings ingested, the later one returned
C16_Witness ==
    /\ CacheUnavailable
    /\ \E q \in Requests : requests[q].pc = "returned"
    /\ \E i \in Lookups :
          /\ lookups[i].pc = "returned"
          /\ Cardinality({doc.ts : doc \in Seen(i)}) = 2
          /\ lookups[i].result.value.ts = NewDate(IsoString(2))

\* nothing is in progress: no ingest, no getLatest, no background promise
Quiescent ==
    /\ \A q \in Requests : requests[q].pc # "inserting"
    /\ \A i \in CacheTasks : cacheTasks[i].pc # "setex"
    /\ \A i \in AlertTasks : alertTasks[i].pc \in {"done", "rejected"}
    /\ \A i \in Lookups : i \in Ended /\ lookups[i].write # "setex"

\* C17: whenever nothing is in progress, an entry under a latest key is a
\* document of the device with the greatest ts in the collection.
C17_CachedIsMostRecent ==
    Quiescent =>
        \A d \in Devices :
            latest[d].ttl # 0 =>
                \E doc \in FindOneLatest(store, d) :
                    JsonParse(latest[d].value).value.id = ObjectIdToString(doc.id)

\* C18: a getSiteSummary call whose aggregate resolved while no stored reading
\* of the site lay in the interval returns the statistics with every field 0;
\* an interval whose start is after its end is such a case.
C18_EmptySummaryIsZero ==
    \A i \in Summarised :
        Matching(i) = {} =>
            /\ summaries[i].pc = "returned"
            /\ summaries[i].result =
                   [count |-> 0, avgTemperature |-> 0, maxTemperature |-> 0,
                    avgHumidity |-> 0, maxHumidity |-> 0, uniqueDevices |-> 0]

\* zeros for an interval that ends before it starts, on a site with readings
C18_Witness ==
    \E i \in Summarised :
        /\ summaries[i].from[2] > summaries[i].to[2]
        /\ \E k \in 1..summaries[i].at : store[k].siteId = summaries[i].siteId
        /\ summaries[i].pc = "returned"
        /\ summaries[i].result.count = 0

\* C19: the count of a summary is the number of stored readings of the site
\* with from <= ts <= to, each stored reading counted once, whatever other
\* sites hold and however often one (deviceId, ts) was ingested.
C19_CountsMatching ==
    \A i \in Summarised :
        /\ summaries[i].pc = "returned"
        /\ summaries[i].result.count = Cardinality(Matching(i))

\* one reading ingested twice, on both bounds of the interval, counted twice
\* beside a reading of another site at the same instant
C19_Witness ==
    \E i \in Summarised :
        /\ summaries[i].result.count = 2
        /\ summaries[i].from = summaries[i].to
        /\ \E j, k \in Matching(i) :
              /\ j # k
              /\ store[j].deviceId = store[k].deviceId
              /\ store[j].ts = store[k].ts
              /\ store[j].ts[2] = summaries[i].to[2] * 1000
        /\ \E k \in 1..summaries[i].at :
              /\ store[k].siteId # summaries[i].siteId
              /\ store[k].ts[2] = summaries[i].to[2] * 1000

\* C20: uniqueDevices of a summary is the number of distinct deviceId among
\* the readings counted; it is at most count and at least 1 when count is.
C20_UniqueDevices ==
    \A i \in Summarised :
        LET res == summaries[i].result IN
        /\ res.uniqueDevices = Cardinality({store[k].deviceId : k \in Matching(i)})
        /\ res.uniqueDevices <= res.count
        /\ res.count >= 1 => res.uniqueDevices >= 1

\* three readings of two devices
C20_Witness ==
    \E i \in Summarised :
        /\ summaries[i].result.count = 3
        /\ summaries[i].result.uniqueDevices = 2

\* C21 (as stated): a getLatest or getSiteSummary call whose store read was
\* rejected fails with a ServiceUnavailable error.
C21_StoreFailureIsUnavailable ==
    /\ \A i \in Lookups :
          lookups[i].read = "rejected" => lookups[i].error = "ServiceUnavailableException"
    /\ \A i \in 1..Len(summaries) :
          summaries[i].read = "rejected" => summaries[i].error = "ServiceUnavailableException"

\* C21: a getLatest or getSiteSummary call whose store read was rejected is
\* itself rejected, with the error of the store as it is, which is not the
\* NotFoundException of a device without data.
C21_StoreFailureIsStoreError ==
    /\ \A i \in Lookups :
          lookups[i].read = "rejected" =>
              /\ lookups[i].pc = "failed"
              /\ lookups[i].error \in StoreErrors
              /\ lookups[i].error # "NotFoundException"
    /\ \A i \in 1..Len(summaries) :
          summaries[i].read = "rejected" =>
              /\ summaries[i].pc = "failed"
              /\ summaries[i].error \in StoreErrors
              /\ summaries[i].error # "NotFoundException"

\* one getLatest call was rejected by the store, another got NotFound
C21_Witness ==
    \E i, j \in Lookups :
        /\ lookups[i].read = "rejected"
        /\ lookups[i].pc = "failed"
        /\ lookups[j].pc = "notFound"
        /\ lookups[j].error = "NotFoundException"

\* the requests answered by the guard
Guarded == {k \in 1..Len(http) : http[k].route = "guard"}
\* the characters of str from place start up to the next space or the end
RunFrom(str, start) ==
    LET stop == IF \E j \in start..Len(str) : str[j] = " "
                THEN CHOOSE j \in start..Len(str) :
                         str[j] = " " /\ \A m \in start..(j - 1) : str[m] # " "
                ELSE Len(str) + 1
    IN SubSeq(str, start, stop - 1)

\* C22: with INGEST_TOKEN unset or empty, canActivate returns true for every
\* request, with any Authorization header or none.
C22_NoTokenAllowsAll ==
    \A k \in Guarded : Falsy(ingestToken) => http[k].guard.allowed

\* a request with scheme Basic passed a guard without token
C22_Witness ==
    \E k \in Guarded :
        /\ ingestToken = Undefined
        /\ http[k].authorization = Basic \o <<" ">> \o <<"a">>
        /\ http[k].guard.allowed

\* C23 (as stated): with a token configured, canActivate returns true for the
\* header 'Bearer <token>' and for no other header.
C23_OnlyExactHeader ==
    \A k \in Guarded :
        ~Falsy(ingestToken) =>
            (http[k].guard.allowed <=>
                 http[k].authorization = Bearer \o <<" ">> \o ingestToken)

\* C23: with a token configured, canActivate looks at the header, then at its
\* first word, then at its second word (the words being separated by single
\* spaces, anything after the second word being ignored): no header, first
\* word other than Bearer, second word empty or absent, second word other than
\* the token are rejected with their own message in this order, and the request
\* is allowed otherwise.
C23_ChecksInOrder ==
    \A k \in Guarded :
        LET h == http[k].authorization
            res == http[k].guard
        IN ~Falsy(ingestToken) =>
            IF Falsy(h) THEN res = [allowed |-> FALSE, message |-> "Missing Authorization header"]
            ELSE IF RunFrom(h, 1) # Bearer
                 THEN res = [allowed |-> FALSE,
                             message |-> "Invalid authentication scheme. Use Bearer token."]
            ELSE IF RunFrom(h, Len(Bearer) + 2) = <<>>
                 THEN res = [allowed |-> FALSE, message |-> "Missing authentication token"]
            ELSE IF RunFrom(h, Len(Bearer) + 2) # ingestToken
                 THEN res = [allowed |-> FALSE, message |-> "Invalid authentication token"]
            ELSE res.allowed

\* a header that is not 'Bearer <token>' was allowed: the token is followed by
\* a space and another word
C23_Witness ==
    \E k \in Guarded :
        /\ ~Falsy(ingestToken)
        /\ http[k].guard.allowed
        /\ http[k].authorization = Bearer \o <<" ">> \o ingestToken \o <<" ", "b">>

\* C24: every reading that has reached the collection, a cache write or an
\* alert evaluation satisfies the rules of the DTO: deviceId and siteId not
\* empty, ts an ISO 8601 date, temperature in [-100, 150], humidity in [0, 100].
C24_OnlyValidReadingsGetIn ==
    LET Ok(r) == /\ r.deviceId # "" /\ r.siteId # "" /\ r.ts[1] = "iso"
                 /\ r.temperature \in -100..150 /\ r.humidity \in 0..100
    IN /\ \A k \in 1..Len(store) : store[k].temperature \in -100..150
                                    /\ store[k].humidity \in 0..100
                                    /\ store[k].deviceId # "" /\ store[k].siteId # ""
       /\ \A i \in CacheTasks : Ok(cacheTasks[i].r)
       /\ \A i \in AlertTasks : Ok(alertTasks[i].r)

\* the health checks made so far
Healths == {k \in 1..Len(http) : http[k].route = "health"}

\* C25: a health check never fails; its status is healthy exactly when
\* readyState was 1 at the call and Redis was connected and answered the ping,
\* and mongodb and redis are reported up or down each on its own.
C25_HealthStatus ==
    \A k \in Healths :
        LET h == http[k]
            mongoUp == h.state = 1
            redisUp == h.conn /\ h.ping = "ok"
        IN /\ h.pc \in {"ping", "returned"}
           /\ ~h.conn => h.pc = "returned"
           /\ h.pc = "returned" =>
                 /\ h.response.status = (IF mongoUp /\ redisUp THEN "healthy" ELSE "unhealthy")
                 /\ h.response.mongodb = (IF mongoUp THEN "up" ELSE "down")
                 /\ h.response.redis = (IF redisUp THEN "up" ELSE "down")

\* unhealthy with MongoDB up: Redis was connected but the ping failed
C25_Witness ==
    \E k \in Healths :
        /\ http[k].pc = "returned"
        /\ http[k].ping = "failed"
        /\ http[k].response.status = "unhealthy"
        /\ http[k].response.mongodb = "up"
        /\ http[k].response.redis = "down"

\* the value of the metric of a reason in reading r, and its threshold
MetricOf(r, reason) == IF reason = HIGH_TEMPERATURE THEN r.temperature ELSE r.humidity
ThresholdOf(reason) ==
    IF reason = HIGH_TEMPERATURE THEN TEMPERATURE_THRESHOLD ELSE HUMIDITY_THRESHOLD

\* C26: an evaluation whose dedup lookup found the marker of (deviceId,
\* reason) builds no alert, writes no marker and makes no webhook call for that
\* reason; the marker it found is not one it wrote.
C26_SuppressedLeavesMarker ==
    \A i \in AlertTasks, reason \in AlertReason :
        LET t == alertTasks[i] IN
        t.look[reason] = "present" =>
            /\ \A k \in 1..Len(t.alerts) : t.alerts[k].reason # reason
            /\ t.mark[reason] = "none"
            /\ PostsFor(i, reason) = {}
            /\ \A key \in DOMAIN marker : marker[key].by # i \/ key[2] # reason
            /\ LET found == marker[AlertKey(t.r.deviceId, reason)] IN
               found.by = t.saw[reason] =>
                   found.expiry = alertTasks[found.by].markAt[reason] + dedupWindow

\* after a suppressed reading the marker still is the one set by the first
\* reading, with the expiry it was given then
C26_Witness ==
    \E i, j \in AlertTasks, reason \in AlertReason :
        LET t == alertTasks[i]
            key == <<t.r.deviceId, reason>>
        IN /\ t.look[reason] = "present"
           /\ t.pc = "done"
           /\ t.saw[reason] = j
           /\ marker[key].by = j
           /\ marker[key].expiry = alertTasks[j].markAt[reason] + 60

\* C27: for a reason whose metric is not above its threshold an evaluation
\* makes no dedup lookup, writes no marker and makes no webhook call; an
\* evaluation of a reading above neither threshold ends at once and owns no marker.
C27_BelowThresholdDoesNothing ==
    \A i \in AlertTasks :
        LET t == alertTasks[i] IN
        /\ \A reason \in AlertReason :
              MetricOf(t.r, reason) <= ThresholdOf(reason) =>
                  /\ t.look[reason] \in {"none", "skip"}
                  /\ t.saw[reason] = 0
                  /\ t.mark[reason] = "none"
                  /\ PostsFor(i, reason) = {}
                  /\ \A key \in DOMAIN marker : marker[key].by # i \/ key[2] # reason
        /\ (\A reason \in AlertReason : MetricOf(t.r, reason) <= ThresholdOf(reason)) =>
              /\ t.pc = "done"
              /\ t.alerts = <<>> /\ t.posts = <<>>

\* a reading at both thresholds was evaluated while its device had a marker
C27_Witness ==
    \E i \in AlertTasks :
        LET t == alertTasks[i] IN
        /\ t.r.temperature = 50 /\ t.r.humidity = 90
        /\ t.pc = "done"
        /\ t.posts = <<>>
        /\ \E reason \in AlertReason : marker[<<t.r.deviceId, reason>>].expiry > now

\* C28: when an evaluation has issued a webhook call, the marker write of
\* every alert it has built has been called and has returned (set, failed, or
\* skipped because Redis was not connected), and a marker that was set was set
\* no later than the call.
C28_MarkBeforeSend ==
    \A i \in AlertTasks :
        LET t == alertTasks[i] IN
        \A k \in 1..Len(t.posts) :
            /\ \A a \in 1..Len(t.alerts) : t.mark[t.alerts[a].reason] \in {"set", "failed", "down"}
            /\ t.mark[t.posts[k].alert.reason] = "set" =>
                  t.markAt[t.posts[k].alert.reason] <= t.posts[k].at

\* the first webhook call of a reading above both thresholds is pending and
\* both markers are set
C28_Witness ==
    \E i \in AlertTasks :
        LET t == alertTasks[i] IN
        /\ Len(t.posts) = 1
        /\ t.posts[1].result = "pending"
        /\ \A reason \in AlertReason : t.mark[reason] = "set"

\* C29: when the first webhook call of an evaluation with two alerts has
\* failed, the second call has been issued; an evaluation that has ended has
\* issued a call for each of its alerts.
C29_FailureDoesNotStopNext ==
    \A i \in AlertTasks :
        LET t == alertTasks[i] IN
        /\ (Len(t.alerts) = 2 /\ Len(t.posts) >= 1 /\ t.posts[1].result = "caught") =>
              /\ Len(t.posts) = 2
              /\ t.posts[1].alert.reason = HIGH_TEMPERATURE
              /\ t.posts[2].alert.reason = HIGH_HUMIDITY
        /\ t.pc = "done" => Len(t.posts) = Len(t.alerts)

\* the temperature alert failed and the humidity alert was sent
C29_Witness ==
    \E i \in AlertTasks :
        LET t == alertTasks[i] IN
        /\ Len(t.posts) = 2
        /\ t.posts[1].result = "caught"
        /\ t.posts[2].result = "sent"
        /\ t.pc = "done"

\* the webhook calls issued so far, and the threshold crossings in the collection
RECURSIVE CallsUpTo(_)
CallsUpTo(n) == IF n = 0 THEN 0 ELSE CallsUpTo(n - 1) + Len(alertTasks[n].posts)
RECURSIVE CrossingsUpTo(_)
CrossingsUpTo(n) ==
    IF n = 0 THEN 0
    ELSE CrossingsUpTo(n - 1)
         + Cardinality({reason \in AlertReason : MetricOf(store[n], reason) > ThresholdOf(reason)})

\* C30: an evaluation issues at most one webhook call per reason, only for a
\* reason its reading exceeds, and only for a reading of a returned ingest
\* call; the calls issued never outnumber the crossings stored.
C30_AtMostOneCallPerCrossing ==
    /\ \A i \in AlertTasks, reason \in AlertReason :
          /\ Cardinality(PostsFor(i, reason)) <= 1
          /\ PostsFor(i, reason) # {} =>
                /\ MetricOf(alertTasks[i].r, reason) > ThresholdOf(reason)
                /\ requests[alertTasks[i].req].pc = "returned"
    /\ \A i \in AlertTasks : Len(alertTasks[i].posts) <= 2
    /\ CallsUpTo(Len(alertTasks)) <= CrossingsUpTo(Len(store))

\* a failed call was the only one of its alert
C30_Witness ==
    \E i \in AlertTasks :
        LET t == alertTasks[i] IN
        /\ t.pc = "done"
        /\ Len(t.posts) = 1
        /\ t.posts[1].result = "caught"
        /\ CallsUpTo(Len(alertTasks)) = 1

\* C31: every webhook call of an evaluation carries the deviceId, siteId and
\* ts of the reading evaluated, which is a reading of the ingest call that
\* started it, and as value that reading's temperature (HIGH_TEMPERATURE) or
\* humidity (HIGH_HUMIDITY); so does every alert built.
C31_AlertCarriesItsReading ==
    \A i \in AlertTasks :
        LET t == alertTasks[i]
            Carries(alert) ==
                /\ alert.deviceId = t.r.deviceId
                /\ alert.siteId = t.r.siteId
                /\ alert.ts = t.r.ts
                /\ alert.reason \in AlertReason
                /\ alert.value = MetricOf(t.r, alert.reason)
        IN /\ \E k \in 1..Len(requests[t.req].readings) : requests[t.req].readings[k] = t.r
           /\ \A k \in 1..Len(t.alerts) : Carries(t.alerts[k])
           /\ \A k \in 1..Len(t.posts) : Carries(t.posts[k].alert)

\* one ingest call of two devices: the humidity alert of d1 was delivered with
\* value 91 and the temperature alert of d2 with value 51
C31_Witness ==
    \E i, j \in AlertTasks :
        /\ alertTasks[i].req = alertTasks[j].req
        /\ alertTasks[i].r.deviceId = "d1" /\ alertTasks[j].r.deviceId = "d2"
        /\ \E k \in 1..Len(alertTasks[i].posts) :
              /\ alertTasks[i].posts[k].alert.reason = HIGH_HUMIDITY
              /\ alertTasks[i].posts[k].alert.value = 91
              /\ alertTasks[i].posts[k].result = "sent"
        /\ \E k \in 1..Len(alertTasks[j].posts) :
              /\ alertTasks[j].posts[k].alert.reason = HIGH_TEMPERATURE
              /\ alertTasks[j].posts[k].alert.value = 51
              /\ alertTasks[j].posts[k].result = "sent"

\* the collection keeps what it held, and changes only when an insertMany ends
StoreStep ==
    /\ Len(store') >= Len(store)
    /\ SubSeq(store', 1, Len(store)) = store
    /\ store' # store =>
          \E q \in Requests : /\ requests[q].pc = "inserting"
                              /\ requests'[q].pc \in {"returned", "failed"}
                              /\ lookups' = lookups
                              /\ summaries' = summaries
                              /\ latest' = latest
                              /\ marker' = marker

\* every reading of a returned ingest call is in the collection, as the
\* document made of it when it was inserted
StoredAsInserted ==
    \A q \in Requests :
        requests[q].pc = "returned" =>
            /\ Cardinality(CacheTasksOf(q)) = Len(requests[q].readings)
            /\ \A k \in 1..Len(requests[q].readings) :
                  \E i \in CacheTasksOf(q) : cacheTasks[i].r = requests[q].readings[k]
            /\ \A i \in CacheTasksOf(q) :
                  LET doc == cacheTasks[i].doc
                  IN /\ doc.id[2] \in 1..Len(store)
                     /\ store[doc.id[2]] = doc
                     /\ doc = Document(cacheTasks[i].r, doc.id[2])

\* C32: the collection only grows: every step keeps the documents it holds, in
\* place and unchanged, only the end of an insertMany adds documents (getLatest,
\* getSiteSummary, the cache commands and the alert evaluations add, change and
\* remove nothing), and every reading of a returned ingest call stays in it as
\* the document inserted for it.
C32_StoreOnlyGrows == [][StoreStep]_vars /\ []StoredAsInserted

\* two ingest calls have returned, a summary was read between them, and a
\* getLatest call, a cache write and an alert delivery have ended
C32_Witness ==
    /\ Len(store) = 2
    /\ \A q \in Requests : requests[q].pc = "returned"
    /\ Len(requests) = 2
    /\ \E i \in 1..Len(summaries) : summaries[i].pc = "returned" /\ summaries[i].at = 1
    /\ \E i \in Lookups : lookups[i].pc = "returned" /\ lookups[i].queries = 1
    /\ \E i \in CacheTasks : cacheTasks[i].pc = "cached"
    /\ \E i \in AlertTasks : \E k \in 1..Len(alertTasks[i].posts) :
          alertTasks[i].posts[k].result = "sent"

\* the documents of the collection that the value of a latest entry stands for
StoredAs(value) ==
    {k \in 1..Len(store) :
        /\ ObjectIdToString(store[k].id) = value.id
        /\ store[k].deviceId = value.deviceId
        /\ store[k].siteId = value.siteId
        /\ ToISOString(store[k].ts) = value.ts
        /\ store[k].temperature = value.temperature
        /\ store[k].humidity = value.humidity}

\* C33: in every state the text under the latest key of a device is the JSON
\* of a reading of that device that is a document of the collection (same _id,
\* site, instant and metrics).
C33_CachedIsStored ==
    \A d \in Devices :
        latest[d].ttl # 0 =>
            /\ JsonParse(latest[d].value).ok
            /\ JsonParse(latest[d].value).value.deviceId = d
            /\ StoredAs(JsonParse(latest[d].value).value) # {}

\* one key was written after an insert and one by a getLatest call that read
\* the collection
C33_Witness ==
    /\ \A d \in Devices : latest[d].ttl # 0
    /\ \E i \in CacheTasks : cacheTasks[i].pc = "cached"
    /\ \E i \in Lookups : lookups[i].write = "cached" /\ lookups[i].queries = 1

\* What a step may do to the collection, to the ingest calls and to the
\* getSiteSummary calls, written over these three alone: the calls made and the
\* outcomes of insertMany and aggregate decide them; the connection flag, the
\* keys of Redis, the cache and alert tasks and the clock do not occur.
DurableStep ==
    \/ UNCHANGED <<store, requests, summaries>>
    \/ /\ \E readings \in SeqUpTo(LatestDto, MaxBatch) :
             requests' = Append(requests, [readings |-> readings, pc |-> "inserting",
                                           result |-> 0])
       /\ UNCHANGED <<store, summaries>>
    \/ /\ \E q \in Requests :
             /\ requests[q].pc = "inserting"
             /\ \/ /\ store' = store \o [k \in 1..Len(requests[q].readings) |->
                                            Document(requests[q].readings[k], Len(store) + k)]
                   /\ requests' = [requests EXCEPT ![q].pc = "returned",
                                                   ![q].result = Len(requests[q].readings)]
                \/ /\ \E n \in 0..(Len(requests[q].readings) - 1) :
                         store' = store \o [k \in 1..n |->
                                               Document(requests[q].readings[k], Len(store) + k)]
                   /\ requests' = [requests EXCEPT ![q].pc = "failed"]
       /\ UNCHANGED summaries
    \/ /\ \E siteId \in Sites :
             summaries' = Append(summaries,
                                 NewSummary(siteId, IsoString(1), IsoString(MaxInstant)))
       /\ UNCHANGED <<store, requests>>
    \/ /\ \E i \in 1..Len(summaries) :
             /\ summaries[i].pc = "aggregate"
             /\ LET c == summaries[i]
                    found == Aggregate(store, c.siteId, c.from, c.to)
                IN \/ summaries' = [summaries EXCEPT ![i].pc = "returned",
                                                     ![i].at = Len(store),
                                                     ![i].result = IF found = <<>> THEN EmptySummary
                                                                   ELSE found[1]]
                   \/ \E error \in StoreErrors :
                         summaries' = [summaries EXCEPT ![i].pc = "failed",
                                                        ![i].read = "rejected",
                                                        ![i].error = error]
       /\ UNCHANGED <<store, requests>>

\* the outcomes of the store are open to a call whatever Redis and the webhook do
DurableOpen ==
    /\ (\E q \in Requests : requests[q].pc = "inserting") =>
          ENABLED InsertResolved /\ ENABLED InsertRejected
    /\ (\E i \in 1..Len(summaries) : summaries[i].pc = "aggregate") =>
          ENABLED AggregateResolved

\* C34: the collection, the results of the ingest calls and the results of the
\* getSiteSummary calls follow from the calls made and from the outcomes of
\* insertMany and aggregate alone: two runs that agree on these agree on all
\* three, however the connection, the commands of Redis, its keys and the
\* webhook calls behave.
C34_DurableAlone == [][DurableStep]_vars /\ []DurableOpen

\* a site was summarised after two ingest calls, while one cache write was
\* skipped, one key written and lost again, and one webhook call failed
C34_Witness ==
    /\ Len(requests) = 2
    /\ \A q \in Requests : requests[q].pc = "returned" /\ requests[q].result = 1
    /\ \E i \in 1..Len(summaries) :
          summaries[i].pc = "returned" /\ summaries[i].result.count = 2
    /\ \E i \in CacheTasks : cacheTasks[i].pc = "skipped"
    /\ \E i \in CacheTasks :
          cacheTasks[i].pc = "cached" /\ latest[cacheTasks[i].r.deviceId] = NoEntry
    /\ \E i \in AlertTasks : \E k \in 1..Len(alertTasks[i].posts) :
          alertTasks[i].posts[k].result = "caught"

\* the POST /telemetry requests that reached ingestTelemetry
Posted == {k \in 1..Len(http) : http[k].route = "telemetry" /\ http[k].req # 0}

\* C35: whichever of the three shapes a body has, the sequence handed to
\* ingestTelemetry is the sequence of readings the client put in it, in the
\* same order (one reading r is handed on as <<r>>), and a call that has
\* returned reports their number.
C35_ShapesNormalizeAlike ==
    \A k \in Posted :
        LET q == requests[http[k].req] IN
        /\ q.readings = http[k].sent
        /\ http[k].shape = "single" => q.readings = <<http[k].body>>
        /\ q.pc = "returned" => q.result = Len(http[k].sent)

\* two readings sent under `readings` were handed on in their order and stored
C35_Witness ==
    \E k \in Posted :
        /\ http[k].shape = "bulk"
        /\ Len(http[k].sent) = 2
        /\ http[k].sent[1] # http[k].sent[2]
        /\ requests[http[k].req].pc = "returned"
        /\ requests[http[k].req].result = 2
        /\ Len(store) = 2

\* C36: every sequence handed to ingestTelemetry holds at least one reading.
C36_NeverEmpty ==
    \A q \in Requests : Len(requests[q].readings) >= 1

\* the Redis commands in flight: setex of a cache task, exists / setex of an
\* alert task, get and setex of a getLatest call
PendingCommands ==
    {<<"cacheLatest", i, "setex">> : i \in {j \in CacheTasks : cacheTasks[j].pc = "setex"}}
    \cup {<<"alert", i, alertTasks[i].pc>> :
              i \in {j \in AlertTasks :
                        alertTasks[j].pc \in {"existsT", "existsH", "markT", "markH"}}}
    \cup {<<"getLatest", i, "get">> : i \in {j \in Lookups : lookups[j].pc = "get"}}
    \cup {<<"getLatest", i, "setex">> : i \in {j \in Lookups : lookups[j].write = "setex"}}

\* a step taken while the connection flag is false
DisconnectedStep ==
    ~isConnected =>
        \* no command is issued
        /\ PendingCommands' \subseteq PendingCommands
        \* unless a command issued earlier ends, no key is written
        /\ PendingCommands' = PendingCommands =>
              /\ marker' = marker
              /\ \A d \in Devices : latest'[d] \in {latest[d], NoEntry}
        \* cacheLatest of a new cache task does nothing
        /\ \A i \in (Len(cacheTasks) + 1)..Len(cacheTasks') : cacheTasks'[i].pc = "skipped"
        \* getLatest of a new call returns null: the call goes on to findOne
        /\ \A i \in (Len(lookups) + 1)..Len(lookups') :
              /\ lookups'[i].cached = "down"
              /\ lookups'[i].text = Nil
              /\ lookups'[i].pc = "findOne"
        \* a dedup lookup made in this step answers false: the alert is built,
        \* and its markAlertSent does nothing
        /\ \A i \in 1..Len(alertTasks'), reason \in AlertReason :
              LET t == alertTasks'[i]
                  before == IF i <= Len(alertTasks) THEN alertTasks[i]
                            ELSE NewAlertTask(t.req, t.r)
                  replied == /\ before.pc \in {"existsT", "existsH"}
                             /\ ReasonAt(before.pc) = reason
              IN /\ (t.look[reason] # before.look[reason] /\ ~replied) =>
                        /\ t.look[reason] \in {"down", "skip"}
                        /\ t.look[reason] = "down" =>
                              \E k \in 1..Len(t.alerts) : t.alerts[k].reason = reason
                 /\ (t.mark[reason] # before.mark[reason]
                       /\ ~(before.pc \in {"markT", "markH"} /\ ReasonAt(before.pc) = reason)) =>
                        t.mark[reason] = "down"

\* C37: in a step that starts with the connection flag false, cacheLatest and
\* markAlertSent issue no command and write no key, getLatest returns null and
\* wasAlertRecentlySent returns false, and neither issues a command; keys change
\* only by commands issued while the flag was true, or by running out.
C37_DisconnectedDoesNothing == [][DisconnectedStep]_vars

\* after the connection was lost, a reading above the temperature threshold
\* was ingested and the latest reading of its device was asked for, while the
\* key of the device held an earlier reading
C37_Witness ==
    /\ ~isConnected
    /\ \E i \in CacheTasks : cacheTasks[i].pc = "cached"
    /\ \E i \in CacheTasks : cacheTasks[i].pc = "skipped"
    /\ \E i \in AlertTasks :
          /\ alertTasks[i].look[HIGH_TEMPERATURE] = "down"
          /\ alertTasks[i].mark[HIGH_TEMPERATURE] = "down"
    /\ \E i \in Lookups :
          /\ lookups[i].cached = "down"
          /\ latest[lookups[i].deviceId].ttl # 0
          /\ lookups[i].pc = "returned"
          /\ lookups[i].write = "skipped"

\* how far an alert evaluation has come
Rank(pc) ==
    CASE pc = "existsT" -> 1
      [] pc = "markT" -> 2
      [] pc = "existsH" -> 3
      [] pc = "markH" -> 4
      [] pc = "post" -> 5
      [] OTHER -> 6

\* an evaluation only moves forward: each wait of its two lookups and its two
\* marker writes is entered at most once, and every webhook call it adds is one
\* of at most two
AlertProgress ==
    \A i \in AlertTasks :
        /\ Rank(alertTasks'[i].pc) >= Rank(alertTasks[i].pc)
        /\ (alertTasks'[i].pc # "post" \/ alertTasks[i].pc # "post") =>
              (alertTasks'[i].pc = alertTasks[i].pc
                 \/ Rank(alertTasks'[i].pc) > Rank(alertTasks[i].pc))
        /\ Len(alertTasks'[i].posts) \in {Len(alertTasks[i].posts), Len(alertTasks[i].posts) + 1}
        /\ Len(alertTasks'[i].posts) <= 2
        /\ Len(alertTasks'[i].alerts) <= 2

\* C38: when every Redis command returns and every webhook call ends (by
\* success, error or timeout), each alert evaluation that was started finishes;
\* on its way it waits at most once for each of two dedup lookups and two marker
\* writes and makes at most two webhook calls.
C38_EvaluationEnds ==
    /\ \A i \in 1..MaxReadings :
          (Len(alertTasks) >= i) ~> (Len(alertTasks) >= i /\ alertTasks[i].pc = "done")
    /\ [][AlertProgress]_vars

\* an evaluation has ended after two lookups, two marker writes and two
\* webhook calls, the first of which ran into the timeout
C38_Witness ==
    \E i \in AlertTasks :
        LET t == alertTasks[i] IN
        /\ t.pc = "done"
        /\ \A reason \in AlertReason : t.look[reason] = "absent" /\ t.mark[reason] = "set"
        /\ Len(t.posts) = 2
        /\ t.posts[1].result = "caught"
        /\ t.posts[2].result = "sent"

\* the comparison of every part of the header of request k with the token
\* tells whether they are the same string
ComparesAsEqual(k) ==
    LET h == http[k].authorization
    IN h # Undefined =>
          \A j \in 1..Len(Split(h)) :
              constantTimeCompare(Split(h)[j], ingestToken) <=> Split(h)[j] = ingestToken

\* C39 (as stated): with a token T configured, canActivate returns true if and
\* only if the header is the string 'Bearer ' followed by T and nothing else,
\* and the comparison is true exactly for equal strings.
C39_ExactlyBearerToken ==
    \A k \in Guarded :
        ~Falsy(ingestToken) =>
            /\ http[k].guard.allowed <=>
                  (/\ http[k].authorization # Undefined
                   /\ Len(http[k].authorization) = Len(Bearer) + 1 + Len(ingestToken)
                   /\ SubSeq(http[k].authorization, 1, Len(Bearer)) = Bearer
                   /\ http[k].authorization[Len(Bearer) + 1] = " "
                   /\ SubSeq(http[k].authorization, Len(Bearer) + 2,
                             Len(http[k].authorization)) = ingestToken)
            /\ ComparesAsEqual(k)

\* C39: with a token T configured, canActivate returns true if and only if the
\* header, split at its single spaces, has Bearer as its first part and T as
\* its second part, whatever follows; so no header is accepted when T holds a
\* space, and the comparison is true exactly for equal strings.
C39_BearerThenToken ==
    \A k \in Guarded :
        ~Falsy(ingestToken) =>
            /\ http[k].guard.allowed <=>
                  (/\ http[k].authorization # Undefined
                   /\ Len(Split(http[k].authorization)) >= 2
                   /\ Split(http[k].authorization)[1] = Bearer
                   /\ Split(http[k].authorization)[2] = ingestToken)
            /\ (\E j \in 1..Len(ingestToken) : ingestToken[j] = " ") => ~http[k].guard.allowed
            /\ ComparesAsEqual(k)

\* the header 'Bearer ab' was accepted for the token ab, and turned down for
\* another token of the same length
C39_Witness ==
    \E k \in Guarded :
        /\ http[k].authorization = Bearer \o <<" ", "a", "b">>
        /\ ingestToken = <<"a", "b">>
        /\ http[k].guard.allowed

====
